---- MODULE Spec2Model ----
(***************************************************************************)
(* A model of the DoublyLinkedList class of src/doubly_linked_list.py and  *)
(* of the Node record of src/node.py.                                      *)
(*                                                                         *)
(* The heap is a partial function from node addresses to Node records;     *)
(* a list object is a record of head, tail and size.  Every method of the  *)
(* class is an operator from a machine state (heap and list objects) to an *)
(* outcome: the machine state it leaves, the exception it raised (if any)  *)
(* and the value it returned.  The operators follow the statements of the  *)
(* methods one by one.                                                     *)
(***************************************************************************)
EXTENDS Integers, Sequences, FiniteSets, TLC

VARIABLES heap, lists, result, iteration

vars == <<heap, lists, result, iteration>>

\* ------------------------------------------------------------------------
\* Bounds of the model
\* ------------------------------------------------------------------------
\* Largest size a list is grown to when every method is called.
MaxLen == 3
\* Largest size a list is grown to when only insertions and deletions are
\* called (from size 5 on _get_node_at_position walks back from the tail).
MaxEdit == 5
\* Payloads are the integers 1..MaxVal.
MaxVal == 2
\* Longest Python list given to from_python_list.
MaxSeq == 2
\* Largest size a list is grown to when two lists are used side by side:
\* the two together hold about the nodes of one list alone.
MaxPair == (MaxLen + 1) \div 2
\* Largest size a list is grown to when two lists are compared.
MaxEq == MaxPair + 1
\* Largest size a list is grown to when it is sorted and deduplicated.
MaxSort == 4
\* Largest size a list is grown to when it is iterated step by step: the
\* list a generator holds and the list its name is bound to are side by side.
MaxWalk == MaxPair + 1

\* ------------------------------------------------------------------------
\* Values
\* ------------------------------------------------------------------------
\* Python's None: the empty link, and the payload the list refuses.
None == 0
\* An index or position that is not an int (isinstance(position, int) fails).
NotInt == 999
\* An object that is not a DoublyLinkedList (isinstance(other,
\* DoublyLinkedList) fails).
NotAList == 998
\* Marks a traversal that runs for ever (only possible on a cyclic chain).
Diverged == -1
\* Marks a traversal that reads a link of None (`current.next` with current
\* None), which raises AttributeError.
NoneDeref == -2

Values == 1..MaxVal
Payloads == Values \cup {None}

\* Payloads of a second type: the numbers above StrBase stand for Python
\* strings ("a" is StrBase + 1), which `==` tells from every int and `<`
\* refuses to compare with an int (TypeError).
StrBase == 100
Strs == {StrBase + 1}
IsStr(x) == x > StrBase
Comparable(a, b) == a # None /\ b # None /\ IsStr(a) = IsStr(b)
MixedPayloads == Payloads \cup Strs

\* The list objects: 1 is the list under test, 2 a second list (a clone),
\* Fresh is the object a constructor call has just produced and that is not
\* yet bound to a name (the return value of clone / from_python_list).
\* Held is the list object that only a generator still refers to (its
\* `self`), after the name it was made from was bound to another object.
Fresh == 0
ListIds == {1, 2}
Held == 3
Slots == {Fresh} \cup ListIds \cup {Held}

\* The exceptions the methods raise, by the raise statement that raises them.
NoExc == "none"
InvalidValue == "ValueError: Cannot insert None into the list."
TargetNotFound == "ValueError: target has not been found in the list"
ValueNotFound == "ValueError: value does not exist in the list."
EmptyList == "RuntimeError: List must contain at least 1 value"
EmptyStack == "RuntimeError: Stack must not be empty"
EmptyQueue == "RuntimeError: Queue must not be empty"
OutOfRange == "IndexError"
TypeMismatch == "TypeError"
NotAPythonListError == "TypeError: Input must be a standard Python list."
AssertionError == "AssertionError"
AttributeError == "AttributeError: 'NoneType' object has no attribute"
StopIteration == "StopIteration"
\* Not an exception: the call never returns.
Hang == "no return"

\* ------------------------------------------------------------------------
\* Node, the list object, outcomes
\* ------------------------------------------------------------------------
\* Node.__init__
Node(info) == [info |-> info, next |-> None, prev |-> None]

\* DoublyLinkedList.__init__
EmptyDll == [head |-> None, tail |-> None, size |-> 0]

\* The address a newly constructed object gets: one not in use.
NewId(h) == CHOOSE n \in 1..(Cardinality(DOMAIN h) + 1) : n \notin DOMAIN h

Construct(m, n, info) == [m EXCEPT !.heap = m.heap @@ (n :> Node(info))]

SetNext(m, n, x) == [m EXCEPT !.heap[n].next = x]
SetPrev(m, n, x) == [m EXCEPT !.heap[n].prev = x]
SetInfo(m, n, x) == [m EXCEPT !.heap[n].info = x]
SetHead(m, l, x) == [m EXCEPT !.lists[l].head = x]
SetTail(m, l, x) == [m EXCEPT !.lists[l].tail = x]
SetSize(m, l, x) == [m EXCEPT !.lists[l].size = x]

NextOf(m, n) == m.heap[n].next
PrevOf(m, n) == m.heap[n].prev
InfoOf(m, n) == m.heap[n].info
HeadOf(m, l) == m.lists[l].head
TailOf(m, l) == m.lists[l].tail
SizeOf(m, l) == m.lists[l].size

\* What a call leaves: the machine state, the exception, and the returned
\* value (val for an element or a number, seq for a Python list, flag for a
\* bool; the fields a call does not use keep their defaults).
Outcome(m, exc, val, seq, flag) ==
    [m |-> m, exc |-> exc, val |-> val, seq |-> seq, flag |-> flag]
Ok(m) == Outcome(m, NoExc, None, <<>>, FALSE)
Raise(m, exc) == Outcome(m, exc, None, <<>>, FALSE)
ReturnVal(m, v) == Outcome(m, NoExc, v, <<>>, FALSE)
ReturnSeq(m, s) == Outcome(m, NoExc, None, s, FALSE)
ReturnBool(m, b) == Outcome(m, NoExc, None, <<>>, b)

\* A chain longer than the heap has nodes goes round a cycle.
Fuel(m) == Cardinality(DOMAIN m.heap) + 1

\* ------------------------------------------------------------------------
\* Auxiliary methods
\* ------------------------------------------------------------------------
\* Mutant of validate_value: the check is dropped, nothing is refused.
validate_value_never(value) == FALSE

\* _validate_value: TRUE when it raises.
validate_value(value) == value = None

\* The search loop `while current and not found` shared by contains,
\* insert_after_node, insert_before_node and delete_value: the first node
\* from `current` on whose info equals value, None when the chain ends.
RECURSIVE Search(_, _, _, _)
Search(m, current, value, fuel) ==
    IF current = None THEN None
    ELSE IF fuel = 0 THEN Diverged
    ELSE IF InfoOf(m, current) = value THEN current
    ELSE Search(m, NextOf(m, current), value, fuel - 1)

\* `for _ in range(k): current = current.next` (or .prev).
RECURSIVE Hops(_, _, _, _)
Hops(m, current, forward, k) ==
    IF k = 0 THEN current
    ELSE IF current = None THEN NoneDeref
    ELSE Hops(m, IF forward THEN NextOf(m, current) ELSE PrevOf(m, current),
              forward, k - 1)

\* Mutant of get_node_at_position: the walk from the tail goes one node too
\* far (`range(self.size - position)`).
get_node_at_position_overshoots(m, l, position) ==
    IF position = NotInt THEN [exc |-> TypeMismatch, node |-> None]
    ELSE IF position < 0 \/ position >= SizeOf(m, l)
        THEN [exc |-> OutOfRange, node |-> None]
    ELSE LET current ==
                 IF position > SizeOf(m, l) \div 2
                 THEN Hops(m, TailOf(m, l), FALSE, SizeOf(m, l) - position)
                 ELSE Hops(m, HeadOf(m, l), TRUE, position)
         IN IF current = NoneDeref THEN [exc |-> AttributeError, node |-> None]
            ELSE IF current = None THEN [exc |-> AssertionError, node |-> None]
            ELSE [exc |-> NoExc, node |-> current]

\* Mutant of get_node_at_position: the walk from the tail counts as the walk
\* from the head does (`for _ in range(position): current = current.prev`).
get_node_at_position_mirrored(m, l, position) ==
    IF position = NotInt THEN [exc |-> TypeMismatch, node |-> None]
    ELSE IF position < 0 \/ position >= SizeOf(m, l)
        THEN [exc |-> OutOfRange, node |-> None]
    ELSE LET current ==
                 IF position > SizeOf(m, l) \div 2
                 THEN Hops(m, TailOf(m, l), FALSE, position)
                 ELSE Hops(m, HeadOf(m, l), TRUE, position)
         IN IF current = NoneDeref THEN [exc |-> AttributeError, node |-> None]
            ELSE IF current = None THEN [exc |-> AssertionError, node |-> None]
            ELSE [exc |-> NoExc, node |-> current]

\* _get_node_at_position: the exception raised and the node returned.
get_node_at_position(m, l, position) ==
    IF position = NotInt THEN [exc |-> TypeMismatch, node |-> None]
    ELSE IF position < 0 \/ position >= SizeOf(m, l)
        THEN [exc |-> OutOfRange, node |-> None]
    ELSE LET current ==
                 IF position > SizeOf(m, l) \div 2
                 THEN Hops(m, TailOf(m, l), FALSE, SizeOf(m, l) - 1 - position)
                 ELSE Hops(m, HeadOf(m, l), TRUE, position)
         IN IF current = NoneDeref THEN [exc |-> AttributeError, node |-> None]
            ELSE IF current = None THEN [exc |-> AssertionError, node |-> None]
            ELSE [exc |-> NoExc, node |-> current]

\* Mutant of clear: `self.tail = None` is missing.
clear_keeps_tail(m, l) == Ok(SetSize(SetHead(m, l, None), l, 0))

clear(m, l) == Ok(SetSize(SetTail(SetHead(m, l, None), l, None), l, 0))

\* ------------------------------------------------------------------------
\* Insertions
\* ------------------------------------------------------------------------
insert_at_beginning(m, l, value) ==
    IF validate_value(value) THEN Raise(m, InvalidValue)
    ELSE LET new_node == NewId(m.heap)
             m1 == Construct(m, new_node, value)
         IN IF HeadOf(m1, l) = None
            THEN Ok(SetSize(SetTail(SetHead(m1, l, new_node), l, new_node),
                            l, SizeOf(m1, l) + 1))
            ELSE LET m2 == SetNext(m1, new_node, HeadOf(m1, l))
                     m3 == SetPrev(m2, HeadOf(m2, l), new_node)
                     m4 == SetHead(m3, l, new_node)
                 IN Ok(SetSize(m4, l, SizeOf(m4, l) + 1))

\* Mutant of insert_at_end: the new tail points back to the head
\* (`new_node.next = self.head`), which closes the chain into a ring.
insert_at_end_ring(m, l, value) ==
    IF validate_value(value) THEN Raise(m, InvalidValue)
    ELSE LET new_node == NewId(m.heap)
             m1 == Construct(m, new_node, value)
         IN IF HeadOf(m1, l) = None
            THEN Ok(SetSize(SetTail(SetHead(m1, l, new_node), l, new_node),
                            l, SizeOf(m1, l) + 1))
            ELSE IF TailOf(m1, l) = None THEN Raise(m1, AttributeError)
            ELSE LET m2 == SetNext(m1, TailOf(m1, l), new_node)
                     m3 == SetPrev(m2, new_node, TailOf(m2, l))
                     m4 == SetTail(SetNext(m3, new_node, HeadOf(m3, l)),
                                   l, new_node)
                 IN Ok(SetSize(m4, l, SizeOf(m4, l) + 1))

insert_at_end(m, l, value) ==
    IF validate_value(value) THEN Raise(m, InvalidValue)
    ELSE LET new_node == NewId(m.heap)
             m1 == Construct(m, new_node, value)
         IN IF HeadOf(m1, l) = None
            THEN Ok(SetSize(SetTail(SetHead(m1, l, new_node), l, new_node),
                            l, SizeOf(m1, l) + 1))
            ELSE IF TailOf(m1, l) = None THEN Raise(m1, AttributeError)
            ELSE LET m2 == SetNext(m1, TailOf(m1, l), new_node)
                     m3 == SetPrev(m2, new_node, TailOf(m2, l))
                     m4 == SetTail(m3, l, new_node)
                 IN Ok(SetSize(m4, l, SizeOf(m4, l) + 1))

\* Mutant of contains: only the head is compared
\* (`return self.head is not None and self.head.info == value`).
contains_head_only(m, l, value) ==
    IF validate_value(value) THEN Raise(m, InvalidValue)
    ELSE ReturnBool(m, HeadOf(m, l) # None /\ InfoOf(m, HeadOf(m, l)) = value)

contains(m, l, value) ==
    IF validate_value(value) THEN Raise(m, InvalidValue)
    ELSE LET current == Search(m, HeadOf(m, l), value, Fuel(m))
         IN IF current = Diverged THEN Raise(m, Hang)
            ELSE ReturnBool(m, current # None)

\* Mutant of insert_after_node: after the tail the new node is linked and
\* `self.tail = new_node` is forgotten.
insert_after_node_keeps_tail(m, l, target_value, new_value) ==
    IF validate_value(target_value) THEN Raise(m, InvalidValue)
    ELSE IF validate_value(new_value) THEN Raise(m, InvalidValue)
    ELSE IF contains(m, l, target_value).exc # NoExc
        THEN Raise(m, contains(m, l, target_value).exc)
    ELSE IF ~contains(m, l, target_value).flag THEN Raise(m, TargetNotFound)
    ELSE LET current == Search(m, HeadOf(m, l), target_value, Fuel(m))
             new_node == NewId(m.heap)
             m1 == Construct(m, new_node, new_value)
         IN IF NextOf(m1, current) = None
            THEN IF current # TailOf(m1, l) THEN Raise(m1, AssertionError)
                 ELSE LET m2 == SetNext(m1, TailOf(m1, l), new_node)
                          m3 == SetPrev(m2, new_node, TailOf(m2, l))
                      IN Ok(SetSize(m3, l, SizeOf(m3, l) + 1))
            ELSE LET m2 == SetNext(m1, new_node, NextOf(m1, current))
                     m3 == SetPrev(m2, NextOf(m2, current), new_node)
                     m4 == SetPrev(m3, new_node, current)
                     m5 == SetNext(m4, current, new_node)
                 IN Ok(SetSize(m5, l, SizeOf(m5, l) + 1))

\* Mutant of insert_after_node: the new value is validated after the search
\* for the target.
insert_after_node_searches_first(m, l, target_value, new_value) ==
    IF validate_value(target_value) THEN Raise(m, InvalidValue)
    ELSE IF contains(m, l, target_value).exc # NoExc
        THEN Raise(m, contains(m, l, target_value).exc)
    ELSE IF ~contains(m, l, target_value).flag THEN Raise(m, TargetNotFound)
    ELSE IF validate_value(new_value) THEN Raise(m, InvalidValue)
    ELSE LET current == Search(m, HeadOf(m, l), target_value, Fuel(m))
             new_node == NewId(m.heap)
             m1 == Construct(m, new_node, new_value)
         IN IF NextOf(m1, current) = None
            THEN IF current # TailOf(m1, l) THEN Raise(m1, AssertionError)
                 ELSE LET m2 == SetNext(m1, TailOf(m1, l), new_node)
                          m3 == SetPrev(m2, new_node, TailOf(m2, l))
                          m4 == SetTail(m3, l, new_node)
                      IN Ok(SetSize(m4, l, SizeOf(m4, l) + 1))
            ELSE LET m2 == SetNext(m1, new_node, NextOf(m1, current))
                     m3 == SetPrev(m2, NextOf(m2, current), new_node)
                     m4 == SetPrev(m3, new_node, current)
                     m5 == SetNext(m4, current, new_node)
                 IN Ok(SetSize(m5, l, SizeOf(m5, l) + 1))

insert_after_node(m, l, target_value, new_value) ==
    IF validate_value(target_value) THEN Raise(m, InvalidValue)
    ELSE IF validate_value(new_value) THEN Raise(m, InvalidValue)
    ELSE IF contains(m, l, target_value).exc # NoExc
        THEN Raise(m, contains(m, l, target_value).exc)
    ELSE IF ~contains(m, l, target_value).flag THEN Raise(m, TargetNotFound)
    ELSE LET current == Search(m, HeadOf(m, l), target_value, Fuel(m))
             new_node == NewId(m.heap)
             m1 == Construct(m, new_node, new_value)
         IN IF NextOf(m1, current) = None
            THEN IF current # TailOf(m1, l) THEN Raise(m1, AssertionError)
                 ELSE LET m2 == SetNext(m1, TailOf(m1, l), new_node)
                          m3 == SetPrev(m2, new_node, TailOf(m2, l))
                          m4 == SetTail(m3, l, new_node)
                      IN Ok(SetSize(m4, l, SizeOf(m4, l) + 1))
            ELSE LET m2 == SetNext(m1, new_node, NextOf(m1, current))
                     m3 == SetPrev(m2, NextOf(m2, current), new_node)
                     m4 == SetPrev(m3, new_node, current)
                     m5 == SetNext(m4, current, new_node)
                 IN Ok(SetSize(m5, l, SizeOf(m5, l) + 1))

\* Mutant of insert_before_node: with no node equal to the target the new
\* value is put at the head instead of raising.
insert_before_node_prepends(m, l, target_value, new_value) ==
    IF validate_value(target_value) THEN Raise(m, InvalidValue)
    ELSE IF validate_value(new_value) THEN Raise(m, InvalidValue)
    ELSE IF contains(m, l, target_value).exc # NoExc
        THEN Raise(m, contains(m, l, target_value).exc)
    ELSE IF ~contains(m, l, target_value).flag
        THEN insert_at_beginning(m, l, new_value)
    ELSE LET current == Search(m, HeadOf(m, l), target_value, Fuel(m))
             new_node == NewId(m.heap)
             m1 == Construct(m, new_node, new_value)
         IN IF PrevOf(m1, current) = None
            THEN IF current # HeadOf(m1, l) THEN Raise(m1, AssertionError)
                 ELSE LET m2 == SetPrev(m1, HeadOf(m1, l), new_node)
                          m3 == SetNext(m2, new_node, HeadOf(m2, l))
                          m4 == SetHead(m3, l, new_node)
                      IN Ok(SetSize(m4, l, SizeOf(m4, l) + 1))
            ELSE LET m2 == SetNext(m1, PrevOf(m1, current), new_node)
                     m3 == SetPrev(m2, new_node, PrevOf(m2, current))
                     m4 == SetNext(m3, new_node, current)
                     m5 == SetPrev(m4, current, new_node)
                 IN Ok(SetSize(m5, l, SizeOf(m5, l) + 1))

insert_before_node(m, l, target_value, new_value) ==
    IF validate_value(target_value) THEN Raise(m, InvalidValue)
    ELSE IF validate_value(new_value) THEN Raise(m, InvalidValue)
    ELSE IF contains(m, l, target_value).exc # NoExc
        THEN Raise(m, contains(m, l, target_value).exc)
    ELSE IF ~contains(m, l, target_value).flag THEN Raise(m, TargetNotFound)
    ELSE LET current == Search(m, HeadOf(m, l), target_value, Fuel(m))
             new_node == NewId(m.heap)
             m1 == Construct(m, new_node, new_value)
         IN IF PrevOf(m1, current) = None
            THEN IF current # HeadOf(m1, l) THEN Raise(m1, AssertionError)
                 ELSE LET m2 == SetPrev(m1, HeadOf(m1, l), new_node)
                          m3 == SetNext(m2, new_node, HeadOf(m2, l))
                          m4 == SetHead(m3, l, new_node)
                      IN Ok(SetSize(m4, l, SizeOf(m4, l) + 1))
            ELSE LET m2 == SetNext(m1, PrevOf(m1, current), new_node)
                     m3 == SetPrev(m2, new_node, PrevOf(m2, current))
                     m4 == SetNext(m3, new_node, current)
                     m5 == SetPrev(m4, current, new_node)
                 IN Ok(SetSize(m5, l, SizeOf(m5, l) + 1))

\* ------------------------------------------------------------------------
\* Deletions
\* ------------------------------------------------------------------------
get_size(m, l) == ReturnVal(m, SizeOf(m, l))

is_empty(m, l) == ReturnBool(m, SizeOf(m, l) = 0)

\* Mutant of delete_at_beginning: removing the only element resets head and
\* forgets `self.tail = None`.
delete_at_beginning_keeps_tail(m, l) ==
    IF HeadOf(m, l) = None \/ SizeOf(m, l) = 0 THEN Raise(m, EmptyList)
    ELSE IF get_size(m, l).val = 1
        THEN LET m1 == SetHead(m, l, NextOf(m, HeadOf(m, l)))
             IN Ok(SetSize(m1, l, SizeOf(m1, l) - 1))
    ELSE LET m1 == SetHead(m, l, NextOf(m, HeadOf(m, l)))
         IN IF HeadOf(m1, l) = None THEN Raise(m1, AttributeError)
            ELSE LET m2 == SetPrev(m1, HeadOf(m1, l), None)
                 IN Ok(SetSize(m2, l, SizeOf(m2, l) - 1))

delete_at_beginning(m, l) ==
    IF HeadOf(m, l) = None \/ SizeOf(m, l) = 0 THEN Raise(m, EmptyList)
    ELSE IF get_size(m, l).val = 1
        THEN LET m1 == SetHead(m, l, NextOf(m, HeadOf(m, l)))
                 m2 == SetTail(m1, l, None)
             IN Ok(SetSize(m2, l, SizeOf(m2, l) - 1))
    ELSE LET m1 == SetHead(m, l, NextOf(m, HeadOf(m, l)))
         IN IF HeadOf(m1, l) = None THEN Raise(m1, AttributeError)
            ELSE LET m2 == SetPrev(m1, HeadOf(m1, l), None)
                 IN Ok(SetSize(m2, l, SizeOf(m2, l) - 1))

\* Mutant of delete_at_end: the new tail keeps its link to the node removed
\* (`self.tail.next = None` is forgotten).
delete_at_end_keeps_link(m, l) ==
    IF HeadOf(m, l) = None \/ TailOf(m, l) = None \/ SizeOf(m, l) = 0
    THEN Raise(m, EmptyList)
    ELSE IF get_size(m, l).val = 1
        THEN LET m1 == SetHead(m, l, NextOf(m, HeadOf(m, l)))
                 m2 == SetTail(m1, l, None)
             IN Ok(SetSize(m2, l, SizeOf(m2, l) - 1))
    ELSE LET m1 == SetTail(m, l, PrevOf(m, TailOf(m, l)))
         IN IF TailOf(m1, l) = None THEN Raise(m1, AttributeError)
            ELSE Ok(SetSize(m1, l, SizeOf(m1, l) - 1))

delete_at_end(m, l) ==
    IF HeadOf(m, l) = None \/ TailOf(m, l) = None \/ SizeOf(m, l) = 0
    THEN Raise(m, EmptyList)
    ELSE IF get_size(m, l).val = 1
        THEN LET m1 == SetHead(m, l, NextOf(m, HeadOf(m, l)))
                 m2 == SetTail(m1, l, None)
             IN Ok(SetSize(m2, l, SizeOf(m2, l) - 1))
    ELSE LET m1 == SetTail(m, l, PrevOf(m, TailOf(m, l)))
         IN IF TailOf(m1, l) = None THEN Raise(m1, AttributeError)
            ELSE LET m2 == SetNext(m1, TailOf(m1, l), None)
                 IN Ok(SetSize(m2, l, SizeOf(m2, l) - 1))

\* Mutant of unlink: the interior splice forgets
\* `current.prev.next = current.next`.
unlink_no_forward(m, l, current) ==
    IF PrevOf(m, current) = None THEN delete_at_beginning(m, l)
    ELSE IF NextOf(m, current) = None THEN delete_at_end(m, l)
    ELSE LET m2 == SetPrev(m, NextOf(m, current), PrevOf(m, current))
         IN Ok(SetSize(m2, l, SizeOf(m2, l) - 1))

\* Mutant of unlink: the interior splice forgets
\* `current.next.prev = current.prev`.
unlink_no_backward(m, l, current) ==
    IF PrevOf(m, current) = None THEN delete_at_beginning(m, l)
    ELSE IF NextOf(m, current) = None THEN delete_at_end(m, l)
    ELSE LET m1 == SetNext(m, PrevOf(m, current), NextOf(m, current))
         IN Ok(SetSize(m1, l, SizeOf(m1, l) - 1))

\* Mutant of unlink: size is decremented once more after the call of
\* delete_at_beginning or delete_at_end, which has decremented it.
unlink_double_decrement(m, l, current) ==
    IF PrevOf(m, current) = None
    THEN LET r == delete_at_beginning(m, l)
         IN IF r.exc # NoExc THEN r ELSE Ok(SetSize(r.m, l, SizeOf(r.m, l) - 1))
    ELSE IF NextOf(m, current) = None
    THEN LET r == delete_at_end(m, l)
         IN IF r.exc # NoExc THEN r ELSE Ok(SetSize(r.m, l, SizeOf(r.m, l) - 1))
    ELSE LET m1 == SetNext(m, PrevOf(m, current), NextOf(m, current))
             m2 == SetPrev(m1, NextOf(m1, current), PrevOf(m1, current))
         IN Ok(SetSize(m2, l, SizeOf(m2, l) - 1))

\* The unlinking that ends delete_value and delete_at_position: `current` is
\* the node to remove.
unlink(m, l, current) ==
    IF PrevOf(m, current) = None THEN delete_at_beginning(m, l)
    ELSE IF NextOf(m, current) = None THEN delete_at_end(m, l)
    ELSE LET m1 == SetNext(m, PrevOf(m, current), NextOf(m, current))
             m2 == SetPrev(m1, NextOf(m1, current), PrevOf(m1, current))
         IN Ok(SetSize(m2, l, SizeOf(m2, l) - 1))

\* Mutant of delete_value: a value that is not found is passed over in
\* silence (`if not found: return`).
delete_value_ignores_missing(m, l, value) ==
    IF validate_value(value) THEN Raise(m, InvalidValue)
    ELSE IF HeadOf(m, l) = None THEN Raise(m, EmptyList)
    ELSE LET current == Search(m, HeadOf(m, l), value, Fuel(m))
         IN IF current = Diverged THEN Raise(m, Hang)
            ELSE IF current = None THEN Ok(m)
            ELSE unlink(m, l, current)

delete_value(m, l, value) ==
    IF validate_value(value) THEN Raise(m, InvalidValue)
    ELSE IF HeadOf(m, l) = None THEN Raise(m, EmptyList)
    ELSE LET current == Search(m, HeadOf(m, l), value, Fuel(m))
         IN IF current = Diverged THEN Raise(m, Hang)
            ELSE IF current = None THEN Raise(m, ValueNotFound)
            ELSE unlink(m, l, current)

\* Mutant of delete_at_position: a negative position is counted from the
\* end, as __getitem__ counts a negative index.
delete_at_position_signed(m, l, position) ==
    IF HeadOf(m, l) = None \/ SizeOf(m, l) = 0 THEN Raise(m, EmptyList)
    ELSE LET got == get_node_at_position(
                        m, l,
                        IF position # NotInt /\ position < 0
                        THEN position + SizeOf(m, l) ELSE position)
         IN IF got.exc # NoExc THEN Raise(m, got.exc)
            ELSE unlink(m, l, got.node)

delete_at_position(m, l, position) ==
    IF HeadOf(m, l) = None \/ SizeOf(m, l) = 0 THEN Raise(m, EmptyList)
    ELSE LET got == get_node_at_position(m, l, position)
         IN IF got.exc # NoExc THEN Raise(m, got.exc)
            ELSE unlink(m, l, got.node)

\* ------------------------------------------------------------------------
\* Conversions
\* ------------------------------------------------------------------------
\* The loop `while current: pythonic_list.append(current.info)`: the infos
\* met from `current` on, following next.  On a cyclic chain the result is
\* longer than the heap has nodes.
RECURSIVE Infos(_, _, _)
Infos(m, current, fuel) ==
    IF current = None \/ fuel = 0 THEN <<>>
    ELSE <<InfoOf(m, current)>> \o Infos(m, NextOf(m, current), fuel - 1)

to_python_list(m, l) ==
    IF HeadOf(m, l) = None \/ TailOf(m, l) = None \/ SizeOf(m, l) = 0
    THEN ReturnSeq(m, <<>>)
    ELSE LET pythonic_list == Infos(m, HeadOf(m, l), Fuel(m))
         IN IF Len(pythonic_list) = Fuel(m) THEN Raise(m, Hang)
            ELSE ReturnSeq(m, pythonic_list)

\* The loop `for item in python_list: dll.insert_at_end(item)` of
\* from_python_list, sort and remove_duplicates; it stops at the first
\* insert_at_end that raises.
RECURSIVE InsertAll(_, _, _)
InsertAll(m, l, python_list) ==
    IF python_list = <<>> THEN Ok(m)
    ELSE LET r == insert_at_end(m, l, python_list[1])
         IN IF r.exc # NoExc THEN r
            ELSE InsertAll(r.m, l, SubSeq(python_list, 2, Len(python_list)))

\* An argument of from_python_list that is not a Python list (a tuple, a
\* str, None ...): the one tuple no list of payloads is encoded as.
NotAPythonList == <<NotAList>>

\* Mutant of from_python_list: the items are inserted last to first
\* (`for item in reversed(python_list)`).
from_python_list_reversed(m, python_list) ==
    IF python_list = NotAPythonList THEN Raise(m, NotAPythonListError)
    ELSE InsertAll([m EXCEPT !.lists[Fresh] = EmptyDll], Fresh,
                   [i \in 1..Len(python_list) |->
                       python_list[Len(python_list) + 1 - i]])

\* from_python_list: the new list is the object Fresh of the outcome.
from_python_list(m, python_list) ==
    IF python_list = NotAPythonList THEN Raise(m, NotAPythonListError)
    ELSE InsertAll([m EXCEPT !.lists[Fresh] = EmptyDll], Fresh, python_list)

\* ------------------------------------------------------------------------
\* Bulk transforms
\* ------------------------------------------------------------------------
\* The loop of reverse: swap next and prev of `current`, go on with what was
\* its next.  The loop rewrites the links it follows, so it may come over a
\* node again and still end; it goes on for ever exactly when it comes to a
\* round with the links and `current` of an earlier round (seen).  rounds
\* counts the rounds made.
RECURSIVE ReverseLoop(_, _, _)
ReverseLoop(m, current, seen) ==
    IF current = None
    THEN [m |-> m, hang |-> FALSE, rounds |-> Cardinality(seen)]
    ELSE IF <<m.heap, current>> \in seen
    THEN [m |-> m, hang |-> TRUE, rounds |-> Cardinality(seen)]
    ELSE LET temp == NextOf(m, current)
             m1 == SetNext(m, current, PrevOf(m, current))
             m2 == SetPrev(m1, current, temp)
         IN ReverseLoop(m2, PrevOf(m2, current),
                        seen \cup {<<m.heap, current>>})

\* Mutant of reverse: the links are swapped, head and tail are not.
reverse_no_swap(m, l) ==
    IF HeadOf(m, l) = None \/ TailOf(m, l) = None \/ SizeOf(m, l) = 0
    THEN Raise(m, EmptyList)
    ELSE LET looped == ReverseLoop(m, HeadOf(m, l), {})
         IN IF looped.hang THEN Raise(looped.m, Hang) ELSE Ok(looped.m)

\* Mutant of reverse: head and tail are exchanged without the temporary
\* (`self.head = self.tail; self.tail = self.head`).
reverse_lost_temp(m, l) ==
    IF HeadOf(m, l) = None \/ TailOf(m, l) = None \/ SizeOf(m, l) = 0
    THEN Raise(m, EmptyList)
    ELSE LET looped == ReverseLoop(m, HeadOf(m, l), {})
             m1 == looped.m
             m2 == SetHead(m1, l, TailOf(m1, l))
             m3 == SetTail(m2, l, HeadOf(m2, l))
         IN IF looped.hang THEN Raise(m1, Hang) ELSE Ok(m3)

reverse(m, l) ==
    IF HeadOf(m, l) = None \/ TailOf(m, l) = None \/ SizeOf(m, l) = 0
    THEN Raise(m, EmptyList)
    ELSE LET looped == ReverseLoop(m, HeadOf(m, l), {})
             m1 == looped.m
             temp_final == HeadOf(m1, l)
             m2 == SetHead(m1, l, TailOf(m1, l))
             m3 == SetTail(m2, l, temp_final)
         IN IF looped.hang THEN Raise(m1, Hang) ELSE Ok(m3)

\* The loop of clone: `while current: clone_to_return.insert_at_end(...)`.
RECURSIVE CloneLoop(_, _, _)
CloneLoop(m, current, fuel) ==
    IF current = None THEN Ok(m)
    ELSE IF fuel = 0 THEN Raise(m, Hang)
    ELSE LET r == insert_at_end(m, Fresh, InfoOf(m, current))
         IN IF r.exc # NoExc THEN r
            ELSE CloneLoop(r.m, NextOf(r.m, current), fuel - 1)

\* Mutant of clone: a shallow copy, the new list takes the head and tail of
\* the source.
clone_shallow(m, l) == Ok([m EXCEPT !.lists[Fresh] = m.lists[l]])

\* clone: the new list is the object Fresh of the outcome.
clone(m, l) ==
    LET m1 == [m EXCEPT !.lists[Fresh] = EmptyDll]
    IN IF HeadOf(m1, l) = None \/ TailOf(m1, l) = None \/ SizeOf(m1, l) = 0
       THEN Ok(m1)
       ELSE CloneLoop(m1, HeadOf(m1, l), Fuel(m1))

\* list.sort(reverse=...) on a Python list of ints: a stable sort, done here
\* by insertion.  With reverse=True equal elements keep their order too.
RECURSIVE SortInsert(_, _, _)
SortInsert(sorted, x, rev) ==
    IF sorted = <<>> THEN <<x>>
    ELSE IF (IF rev THEN x > sorted[1] ELSE x < sorted[1])
        THEN <<x>> \o sorted
    ELSE <<sorted[1]>> \o SortInsert(SubSeq(sorted, 2, Len(sorted)), x, rev)

RECURSIVE SortList(_, _)
SortList(python_list, rev) ==
    IF python_list = <<>> THEN <<>>
    ELSE SortInsert(SortList(SubSeq(python_list, 1, Len(python_list) - 1), rev),
                    python_list[Len(python_list)], rev)

\* `python_list.sort(...)` raises TypeError when it has to compare two
\* elements that `<` does not order, as it must when the list holds any.
SortRaises(python_list) ==
    \E i, j \in DOMAIN python_list :
        i # j /\ ~Comparable(python_list[i], python_list[j])

\* Mutant of sort: `reverse` is not passed on to list.sort.
sort_ignores_reverse(m, l, rev) ==
    IF HeadOf(m, l) = None \/ TailOf(m, l) = None \/ SizeOf(m, l) = 0
    THEN Ok(m)
    ELSE LET got == to_python_list(m, l)
         IN IF got.exc # NoExc THEN got
            ELSE IF SortRaises(got.seq) THEN Ok(m)
            ELSE LET python_list == SortList(got.seq, FALSE)
                 IN InsertAll(clear(m, l).m, l, python_list)

\* Mutant of sort: with reverse=True the values are reversed, not sorted
\* (`python_list.reverse()`).
sort_descending_reverses(m, l, rev) ==
    IF HeadOf(m, l) = None \/ TailOf(m, l) = None \/ SizeOf(m, l) = 0
    THEN Ok(m)
    ELSE LET got == to_python_list(m, l)
         IN IF got.exc # NoExc THEN got
            ELSE IF SortRaises(got.seq) THEN Ok(m)
            ELSE LET python_list ==
                         IF rev
                         THEN [i \in 1..Len(got.seq) |->
                                 got.seq[Len(got.seq) + 1 - i]]
                         ELSE SortList(got.seq, FALSE)
                 IN InsertAll(clear(m, l).m, l, python_list)

\* Mutant of sort: the list is cleared before the values are sorted.
sort_clears_first(m, l, rev) ==
    IF HeadOf(m, l) = None \/ TailOf(m, l) = None \/ SizeOf(m, l) = 0
    THEN Ok(m)
    ELSE LET got == to_python_list(m, l)
         IN IF got.exc # NoExc THEN got
            ELSE IF SortRaises(got.seq) THEN Ok(clear(m, l).m)
            ELSE LET python_list == SortList(got.seq, rev)
                 IN InsertAll(clear(m, l).m, l, python_list)

\* sort: the two soft failures (empty list, TypeError) print and return.
sort(m, l, rev) ==
    IF HeadOf(m, l) = None \/ TailOf(m, l) = None \/ SizeOf(m, l) = 0
    THEN Ok(m)
    ELSE LET got == to_python_list(m, l)
         IN IF got.exc # NoExc THEN got
            ELSE IF SortRaises(got.seq) THEN Ok(m)
            ELSE LET python_list == SortList(got.seq, rev)
                 IN InsertAll(clear(m, l).m, l, python_list)

\* Mutant of Unseen: `seen.add(item)` is forgotten.
RECURSIVE Unseen_never_adds(_, _)
Unseen_never_adds(python_list, seen) ==
    IF python_list = <<>> THEN <<>>
    ELSE IF python_list[1] \notin seen
        THEN <<python_list[1]>>
             \o Unseen_never_adds(SubSeq(python_list, 2, Len(python_list)), seen)
    ELSE Unseen_never_adds(SubSeq(python_list, 2, Len(python_list)), seen)

\* The loop of remove_duplicates: `if item not in seen: ... append(item)`.
RECURSIVE Unseen(_, _)
Unseen(python_list, seen) ==
    IF python_list = <<>> THEN <<>>
    ELSE IF python_list[1] \notin seen
        THEN <<python_list[1]>>
             \o Unseen(SubSeq(python_list, 2, Len(python_list)),
                       seen \cup {python_list[1]})
    ELSE Unseen(SubSeq(python_list, 2, Len(python_list)), seen)

remove_duplicates(m, l) ==
    IF HeadOf(m, l) = None \/ TailOf(m, l) = None \/ SizeOf(m, l) = 0
    THEN Raise(m, EmptyList)
    ELSE LET got == to_python_list(m, l)
         IN IF got.exc # NoExc THEN got
            ELSE InsertAll(clear(m, l).m, l, Unseen(got.seq, {}))

\* ------------------------------------------------------------------------
\* Stack and queue methods
\* ------------------------------------------------------------------------
push(m, l, value) == insert_at_end(m, l, value)

\* Mutant of pop: the branch for two elements or more forgets
\* `self.size -= 1`.
pop_no_decrement(m, l) ==
    IF HeadOf(m, l) = None \/ TailOf(m, l) = None \/ SizeOf(m, l) = 0
    THEN Raise(m, EmptyStack)
    ELSE IF SizeOf(m, l) = 1
        THEN LET value == InfoOf(m, HeadOf(m, l))
             IN IF value # InfoOf(m, TailOf(m, l)) THEN Raise(m, AssertionError)
                ELSE ReturnVal(clear(m, l).m, value)
    ELSE LET value == InfoOf(m, TailOf(m, l))
             m1 == SetTail(m, l, PrevOf(m, TailOf(m, l)))
         IN IF TailOf(m1, l) = None THEN Raise(m1, AttributeError)
            ELSE ReturnVal(SetNext(m1, TailOf(m1, l), None), value)

\* Mutant of pop: the branch for two elements or more returns the value of
\* the head (`value = self.head.info`).
pop_returns_head(m, l) ==
    IF HeadOf(m, l) = None \/ TailOf(m, l) = None \/ SizeOf(m, l) = 0
    THEN Raise(m, EmptyStack)
    ELSE IF SizeOf(m, l) = 1
        THEN LET value == InfoOf(m, HeadOf(m, l))
             IN IF value # InfoOf(m, TailOf(m, l)) THEN Raise(m, AssertionError)
                ELSE ReturnVal(clear(m, l).m, value)
    ELSE LET value == InfoOf(m, HeadOf(m, l))
             m1 == SetTail(m, l, PrevOf(m, TailOf(m, l)))
         IN IF TailOf(m1, l) = None THEN Raise(m1, AttributeError)
            ELSE LET m2 == SetNext(m1, TailOf(m1, l), None)
                 IN ReturnVal(SetSize(m2, l, SizeOf(m2, l) - 1), value)

pop(m, l) ==
    IF HeadOf(m, l) = None \/ TailOf(m, l) = None \/ SizeOf(m, l) = 0
    THEN Raise(m, EmptyStack)
    ELSE IF SizeOf(m, l) = 1
        THEN LET value == InfoOf(m, HeadOf(m, l))
             IN IF value # InfoOf(m, TailOf(m, l)) THEN Raise(m, AssertionError)
                ELSE ReturnVal(clear(m, l).m, value)
    ELSE LET value == InfoOf(m, TailOf(m, l))
             m1 == SetTail(m, l, PrevOf(m, TailOf(m, l)))
         IN IF TailOf(m1, l) = None THEN Raise(m1, AttributeError)
            ELSE LET m2 == SetNext(m1, TailOf(m1, l), None)
                 IN ReturnVal(SetSize(m2, l, SizeOf(m2, l) - 1), value)

\* Mutant of peek: the top is removed as well (`return self.pop()`).
peek_removes(m, l) == pop(m, l)

peek(m, l) ==
    IF HeadOf(m, l) = None \/ TailOf(m, l) = None \/ SizeOf(m, l) = 0
    THEN Raise(m, EmptyStack)
    ELSE ReturnVal(m, InfoOf(m, TailOf(m, l)))

enqueue(m, l, value) == insert_at_end(m, l, value)

\* Mutant of dequeue: the new head keeps its link to the node removed
\* (`self.head.prev = None` is missing).
dequeue_keeps_prev(m, l) ==
    IF HeadOf(m, l) = None \/ TailOf(m, l) = None \/ SizeOf(m, l) = 0
    THEN Raise(m, EmptyQueue)
    ELSE LET value == InfoOf(m, HeadOf(m, l))
         IN IF SizeOf(m, l) = 1 THEN ReturnVal(clear(m, l).m, value)
            ELSE LET m1 == SetHead(m, l, NextOf(m, HeadOf(m, l)))
                 IN IF HeadOf(m1, l) = None THEN Raise(m1, AttributeError)
                    ELSE ReturnVal(SetSize(m1, l, SizeOf(m1, l) - 1), value)

\* Mutant of dequeue: the tail end is served (`value = self.tail.info`, then
\* the tail is unlinked).
dequeue_serves_tail(m, l) ==
    IF HeadOf(m, l) = None \/ TailOf(m, l) = None \/ SizeOf(m, l) = 0
    THEN Raise(m, EmptyQueue)
    ELSE LET value == InfoOf(m, TailOf(m, l))
         IN IF SizeOf(m, l) = 1 THEN ReturnVal(clear(m, l).m, value)
            ELSE LET m1 == SetTail(m, l, PrevOf(m, TailOf(m, l)))
                 IN IF TailOf(m1, l) = None THEN Raise(m1, AttributeError)
                    ELSE LET m2 == SetNext(m1, TailOf(m1, l), None)
                         IN ReturnVal(SetSize(m2, l, SizeOf(m2, l) - 1), value)

dequeue(m, l) ==
    IF HeadOf(m, l) = None \/ TailOf(m, l) = None \/ SizeOf(m, l) = 0
    THEN Raise(m, EmptyQueue)
    ELSE LET value == InfoOf(m, HeadOf(m, l))
         IN IF SizeOf(m, l) = 1 THEN ReturnVal(clear(m, l).m, value)
            ELSE LET m1 == SetHead(m, l, NextOf(m, HeadOf(m, l)))
                 IN IF HeadOf(m1, l) = None THEN Raise(m1, AttributeError)
                    ELSE LET m2 == SetPrev(m1, HeadOf(m1, l), None)
                         IN ReturnVal(SetSize(m2, l, SizeOf(m2, l) - 1), value)

peek_front(m, l) ==
    IF HeadOf(m, l) = None \/ TailOf(m, l) = None \/ SizeOf(m, l) = 0
    THEN Raise(m, EmptyQueue)
    ELSE ReturnVal(m, InfoOf(m, HeadOf(m, l)))

peek_rear(m, l) ==
    IF HeadOf(m, l) = None \/ TailOf(m, l) = None \/ SizeOf(m, l) = 0
    THEN Raise(m, EmptyQueue)
    ELSE ReturnVal(m, InfoOf(m, TailOf(m, l)))

\* ------------------------------------------------------------------------
\* Indexed access
\* ------------------------------------------------------------------------
\* The index resolution shared by __setitem__ and __getitem__: the exception
\* raised and positive_index.
resolve_index(m, l, index) ==
    IF index = NotInt THEN [exc |-> TypeMismatch, positive_index |-> None]
    ELSE IF index < 0
        THEN IF index + SizeOf(m, l) < 0
             THEN [exc |-> OutOfRange, positive_index |-> None]
             ELSE [exc |-> NoExc, positive_index |-> index + SizeOf(m, l)]
    ELSE IF index >= SizeOf(m, l)
        THEN [exc |-> OutOfRange, positive_index |-> None]
    ELSE [exc |-> NoExc, positive_index |-> index]

\* Mutant of setitem: the value is validated after it has been stored.
setitem_late_validation(m, l, index, value) ==
    LET res == resolve_index(m, l, index)
    IN IF res.exc # NoExc THEN Raise(m, res.exc)
       ELSE LET got == get_node_at_position(m, l, res.positive_index)
            IN IF got.exc # NoExc THEN Raise(m, got.exc)
               ELSE IF validate_value(value)
                   THEN Raise(SetInfo(m, got.node, value), InvalidValue)
               ELSE Ok(SetInfo(m, got.node, value))

\* Mutant of setitem: the value is not validated at all.
setitem_unvalidated(m, l, index, value) ==
    LET res == resolve_index(m, l, index)
    IN IF res.exc # NoExc THEN Raise(m, res.exc)
       ELSE LET got == get_node_at_position(m, l, res.positive_index)
            IN IF got.exc # NoExc THEN Raise(m, got.exc)
               ELSE Ok(SetInfo(m, got.node, value))

\* Mutant of setitem: the value is written to the head
\* (`node = self.head`).
setitem_writes_head(m, l, index, value) ==
    IF validate_value(value) THEN Raise(m, InvalidValue)
    ELSE LET res == resolve_index(m, l, index)
         IN IF res.exc # NoExc THEN Raise(m, res.exc)
            ELSE Ok(SetInfo(m, HeadOf(m, l), value))

setitem(m, l, index, value) ==
    IF validate_value(value) THEN Raise(m, InvalidValue)
    ELSE LET res == resolve_index(m, l, index)
         IN IF res.exc # NoExc THEN Raise(m, res.exc)
            ELSE LET got == get_node_at_position(m, l, res.positive_index)
                 IN IF got.exc # NoExc THEN Raise(m, got.exc)
                    ELSE Ok(SetInfo(m, got.node, value))

getitem(m, l, index) ==
    LET res == resolve_index(m, l, index)
    IN IF res.exc # NoExc THEN Raise(m, res.exc)
       ELSE LET got == get_node_at_position(m, l, res.positive_index)
            IN IF got.exc # NoExc THEN Raise(m, got.exc)
               ELSE ReturnVal(m, InfoOf(m, got.node))

\* `value in l`: __contains__ returns self.contains(value).
contains_in(m, l, value) == contains(m, l, value)

\* ------------------------------------------------------------------------
\* Iteration
\* ------------------------------------------------------------------------
\* The generator object that `iter(l)` (forward) or `reversed(l)` returns:
\* nothing of the body has run yet.
GenNew(l, forward) ==
    [lst |-> l, forward |-> forward, pc |-> "created", current |-> None]

\* Mutant of gen_next: __reversed__ starts from the head
\* (`current = self.head`).
gen_next_reversed_from_head(m, g) ==
    IF g.pc = "done" THEN [g |-> g, exc |-> StopIteration, val |-> None]
    ELSE LET current ==
                 IF g.pc = "created" THEN HeadOf(m, g.lst)
                 ELSE IF g.forward THEN NextOf(m, g.current)
                 ELSE PrevOf(m, g.current)
         IN IF current = None
            THEN [g |-> [g EXCEPT !.pc = "done", !.current = None],
                  exc |-> StopIteration, val |-> None]
            ELSE [g |-> [g EXCEPT !.pc = "suspended", !.current = current],
                  exc |-> NoExc, val |-> InfoOf(m, current)]

\* `next(g)`: the body of __iter__ / __reversed__ runs from where it stands
\* (its start, or the yield it is suspended at) to the next yield or to its
\* end, which raises StopIteration; so does every later call.
gen_next(m, g) ==
    IF g.pc = "done" THEN [g |-> g, exc |-> StopIteration, val |-> None]
    ELSE LET current ==
                 IF g.pc = "created"
                 THEN (IF g.forward THEN HeadOf(m, g.lst) ELSE TailOf(m, g.lst))
                 ELSE IF g.forward THEN NextOf(m, g.current)
                 ELSE PrevOf(m, g.current)
         IN IF current = None
            THEN [g |-> [g EXCEPT !.pc = "done", !.current = None],
                  exc |-> StopIteration, val |-> None]
            ELSE [g |-> [g EXCEPT !.pc = "suspended", !.current = current],
                  exc |-> NoExc, val |-> InfoOf(m, current)]

\* `for item in g: yielded.append(item)` with nothing else running: the
\* values yielded until StopIteration.  On a cyclic chain it never ends.
RECURSIVE Drain(_, _, _)
Drain(m, g, fuel) ==
    LET r == gen_next(m, g)
    IN IF r.exc = StopIteration THEN [seq |-> <<>>, hang |-> FALSE]
       ELSE IF fuel = 0 THEN [seq |-> <<>>, hang |-> TRUE]
       ELSE LET rest == Drain(m, r.g, fuel - 1)
            IN [seq |-> <<r.val>> \o rest.seq, hang |-> rest.hang]

\* `list(iter(l))` (forward) or `list(reversed(l))`.
iterate(m, l, forward) ==
    LET drained == Drain(m, GenNew(l, forward), Fuel(m))
    IN IF drained.hang THEN Raise(m, Hang) ELSE ReturnSeq(m, drained.seq)

\* ------------------------------------------------------------------------
\* Comparison
\* ------------------------------------------------------------------------
\* The loop of __eq__, `while current_self and current_other`: flag is the
\* value returned.
RECURSIVE EqLoop(_, _, _, _)
EqLoop(m, current_self, current_other, fuel) ==
    IF current_self = None \/ current_other = None
    THEN [flag |-> TRUE, hang |-> FALSE]
    ELSE IF fuel = 0 THEN [flag |-> FALSE, hang |-> TRUE]
    ELSE IF InfoOf(m, current_self) # InfoOf(m, current_other)
        THEN [flag |-> FALSE, hang |-> FALSE]
    ELSE EqLoop(m, NextOf(m, current_self), NextOf(m, current_other), fuel - 1)

\* Mutant of eq: the sizes are not compared.
eq_no_size_check(m, l, other) ==
    IF other = NotAList THEN ReturnBool(m, FALSE)
    ELSE LET looped == EqLoop(m, HeadOf(m, l), HeadOf(m, other), Fuel(m))
         IN IF looped.hang THEN Raise(m, Hang)
            ELSE ReturnBool(m, looped.flag)

\* __eq__: `l == other`.
eq(m, l, other) ==
    IF other = NotAList THEN ReturnBool(m, FALSE)
    ELSE IF SizeOf(m, l) # SizeOf(m, other) THEN ReturnBool(m, FALSE)
    ELSE LET looped == EqLoop(m, HeadOf(m, l), HeadOf(m, other), Fuel(m))
         IN IF looped.hang THEN Raise(m, Hang)
            ELSE ReturnBool(m, looped.flag)

\* ------------------------------------------------------------------------
\* Node addresses
\* ------------------------------------------------------------------------
\* A Node object has no identity a caller can observe, and CPython frees a
\* node as soon as nothing refers to it.  Between two calls the heap is kept
\* up to a renaming of addresses: the nodes no list reaches are dropped, and
\* the others are numbered in the order list 1 and then list 2 meet them.
\* Links are renamed and never repaired.
RECURSIVE Closure(_, _)
Closure(h, S) ==
    LET T == (S \cup {h[n].next : n \in S} \cup {h[n].prev : n \in S})
             \cap DOMAIN h
    IN IF T = S THEN S ELSE Closure(h, T)

RECURSIVE ChainIds(_, _, _)
ChainIds(h, current, seen) ==
    IF current \notin DOMAIN h \/ current \in seen THEN <<>>
    ELSE <<current>> \o ChainIds(h, h[current].next, seen \cup {current})

RECURSIVE Ascending(_)
Ascending(S) ==
    IF S = {} THEN <<>>
    ELSE LET least == CHOOSE n \in S : \A k \in S : n <= k
         IN <<least>> \o Ascending(S \ {least})

Range(s) == {s[i] : i \in DOMAIN s}

Normalize(m) ==
    LET h == m.heap
        ls == [m.lists EXCEPT ![Fresh] = EmptyDll]
        roots == {ls[l].head : l \in ListIds} \cup {ls[l].tail : l \in ListIds}
        live == Closure(h, roots \cap DOMAIN h)
        c1 == ChainIds(h, ls[1].head, {})
        c2 == ChainIds(h, ls[2].head, Range(c1))
        order == c1 \o c2 \o Ascending(live \ (Range(c1) \cup Range(c2)))
        ren(x) == IF x \in Range(order)
                  THEN CHOOSE i \in DOMAIN order : order[i] = x
                  ELSE None
    IN [heap |-> [i \in DOMAIN order |->
                    [info |-> h[order[i]].info,
                     next |-> ren(h[order[i]].next),
                     prev |-> ren(h[order[i]].prev)]],
        lists |-> [l \in Slots |->
                    [head |-> ren(ls[l].head),
                     tail |-> ren(ls[l].tail),
                     size |-> ls[l].size]]]

\* Normalize when a generator holds `pins` (its local `current`, if any):
\* the nodes reached from the pinned ones stay, as CPython keeps what a
\* suspended frame refers to.  `map` is the renaming applied.
Pinned(m, pins) ==
    LET h == m.heap
        ls == [m.lists EXCEPT ![Fresh] = EmptyDll]
        roots == {ls[l].head : l \in ListIds} \cup {ls[l].tail : l \in ListIds}
                 \cup pins
        live == Closure(h, roots \cap DOMAIN h)
        c1 == ChainIds(h, ls[1].head, {})
        c2 == ChainIds(h, ls[2].head, Range(c1))
        order == c1 \o c2 \o Ascending(live \ (Range(c1) \cup Range(c2)))
        ren(x) == IF x \in Range(order)
                  THEN CHOOSE i \in DOMAIN order : order[i] = x
                  ELSE None
    IN [heap |-> [i \in DOMAIN order |->
                    [info |-> h[order[i]].info,
                     next |-> ren(h[order[i]].next),
                     prev |-> ren(h[order[i]].prev)]],
        lists |-> [l \in Slots |->
                    [head |-> ren(ls[l].head),
                     tail |-> ren(ls[l].tail),
                     size |-> ls[l].size]],
        map |-> [x \in DOMAIN h \cup {None} |-> ren(x)]]

\* ------------------------------------------------------------------------
\* The state machine
\* ------------------------------------------------------------------------
\* The machine state the methods work on.
S == [heap |-> heap, lists |-> lists]

\* No generator has been made.
NoGen == [lst |-> 1, forward |-> TRUE, pc |-> "none", current |-> None]

\* The generator g has been made and has not ended: its frame exists, with
\* its locals `self` and `current`.
Live(g) == g.pc \in {"created", "suspended"}

\* The generator `it` has been made and has not ended.
Active == Live(iteration.g)

\* The generator g, the nodes it has yielded so far and whether a call on the
\* list has run since it was made, after the heap was renamed by map: a node
\* that was freed can never be yielded again and leaves the record.
Renamed(g, yielded, mutated, map) ==
    [g |-> [g EXCEPT !.current = map[g.current]],
     yielded |-> SelectSeq([i \in DOMAIN yielded |-> map[yielded[i]]],
                           LAMBDA n : n # None),
     mutated |-> mutated]

\* What the frame of generator g keeps alive in m: `current`, and through
\* `self` the head and the tail of the list object it was made from.
GenPins(m, g) ==
    IF Live(g)
    THEN {g.current, m.lists[g.lst].head, m.lists[g.lst].tail} \ {None}
    ELSE {}

\* The object Held goes when no live generator refers to it.
Release(m, g) ==
    IF Live(g) /\ g.lst = Held THEN m ELSE [m EXCEPT !.lists[Held] = EmptyDll]

\* `dll = DoublyLinkedList()`, twice.
Init ==
    /\ heap = <<>>
    /\ lists = [l \in Slots |-> EmptyDll]
    /\ result = [op |-> "__init__", lst |-> 1, exc |-> NoExc, val |-> None,
                 seq |-> <<>>, flag |-> FALSE]
    /\ iteration = [g |-> NoGen, yielded |-> <<>>, mutated |-> FALSE]

\* The objects left when a call has ended with memory m and generator g: what
\* nothing refers to is freed, the addresses are renumbered.
Settle(m, g, yielded, mutated) ==
    LET m1 == Release(m, g)
        n == Pinned(m1, GenPins(m1, g))
    IN /\ heap' = n.heap
       /\ lists' = n.lists
       /\ iteration' = Renamed(g, yielded, mutated, n.map)

\* A call of method op on list l with outcome r has returned or raised.
Do(op, l, r) ==
    /\ Settle(r.m, iteration.g, iteration.yielded, iteration.mutated \/ Active)
    /\ result' = [op |-> op, lst |-> l, exc |-> r.exc, val |-> r.val,
                  seq |-> r.seq, flag |-> r.flag]

\* `it = iter(l)` (forward) or `it = reversed(l)`: a generator is made (and
\* the one `it` named before is dropped); nothing of its body runs.
GenStart(op, l, forward) ==
    /\ Settle(S, GenNew(l, forward), <<>>, FALSE)
    /\ result' = [op |-> op, lst |-> l, exc |-> NoExc, val |-> None,
                  seq |-> <<>>, flag |-> FALSE]

IterStart(l) == GenStart("iter", l, TRUE)
ReversedStart(l) == GenStart("reversed", l, FALSE)

\* `next(it)`: the generator runs to its next yield or to its end.
IterNext ==
    /\ iteration.g.pc # "none"
    /\ LET r == gen_next(S, iteration.g)
       IN /\ Settle(S, r.g,
                    IF r.exc = NoExc
                    THEN Append(iteration.yielded, r.g.current)
                    ELSE iteration.yielded,
                    iteration.mutated)
          /\ result' = [op |-> "next", lst |-> iteration.g.lst, exc |-> r.exc,
                        val |-> r.val, seq |-> <<>>, flag |-> FALSE]

\* `name = <call>` where the call returns a new list as the object Fresh:
\* the name is bound when the call returns, and left alone when it raises.
Bind(r, l) ==
    IF r.exc = NoExc THEN [r EXCEPT !.m.lists[l] = r.m.lists[Fresh]] ELSE r

\* `dst = <call of op on l>` has returned a new list or raised.  The object
\* dst named before stays, as Held, when a live generator was made from it:
\* the generator goes on over that object, not over the new one.
DoBind(op, l, dst, r) ==
    LET held == r.exc = NoExc /\ Active /\ iteration.g.lst = dst
        kept == IF held
                THEN [r EXCEPT !.m.lists[Held] = r.m.lists[dst]]
                ELSE r
        g == IF held THEN [iteration.g EXCEPT !.lst = Held] ELSE iteration.g
    IN /\ Settle(Bind(kept, dst).m, g, iteration.yielded,
                 iteration.mutated \/ Active)
       /\ result' = [op |-> op, lst |-> l, exc |-> r.exc, val |-> r.val,
                     seq |-> r.seq, flag |-> r.flag]

InsertAtBeginning(l, value) == Do("insert_at_beginning", l, insert_at_beginning(S, l, value))
InsertAtEnd(l, value) == Do("insert_at_end", l, insert_at_end(S, l, value))
InsertAfterNode(l, target_value, new_value) ==
    Do("insert_after_node", l, insert_after_node(S, l, target_value, new_value))
InsertBeforeNode(l, target_value, new_value) ==
    Do("insert_before_node", l, insert_before_node(S, l, target_value, new_value))
Push(l, value) == Do("push", l, push(S, l, value))
Enqueue(l, value) == Do("enqueue", l, enqueue(S, l, value))
DeleteAtBeginning(l) == Do("delete_at_beginning", l, delete_at_beginning(S, l))
DeleteAtEnd(l) == Do("delete_at_end", l, delete_at_end(S, l))
DeleteValue(l, value) == Do("delete_value", l, delete_value(S, l, value))
DeleteAtPosition(l, position) == Do("delete_at_position", l, delete_at_position(S, l, position))
Pop(l) == Do("pop", l, pop(S, l))
Dequeue(l) == Do("dequeue", l, dequeue(S, l))
Clear(l) == Do("clear", l, clear(S, l))
Reverse(l) == Do("reverse", l, reverse(S, l))
Sort(l, rev) == Do("sort", l, sort(S, l, rev))
RemoveDuplicates(l) == Do("remove_duplicates", l, remove_duplicates(S, l))
SetItem(l, index, value) == Do("__setitem__", l, setitem(S, l, index, value))
GetItem(l, index) == Do("__getitem__", l, getitem(S, l, index))
Contains(l, value) == Do("contains", l, contains(S, l, value))
GetSize(l) == Do("get_size", l, get_size(S, l))
IsEmpty(l) == Do("is_empty", l, is_empty(S, l))
ToPythonList(l) == Do("to_python_list", l, to_python_list(S, l))
Peek(l) == Do("peek", l, peek(S, l))
PeekFront(l) == Do("peek_front", l, peek_front(S, l))
PeekRear(l) == Do("peek_rear", l, peek_rear(S, l))
Eq(l, other) == Do("__eq__", l, eq(S, l, other))
In(l, value) == Do("__contains__", l, contains_in(S, l, value))
\* `l = DoublyLinkedList.from_python_list(python_list)`
FromPythonList(l, python_list) ==
    DoBind("from_python_list", l, l, from_python_list(S, python_list))
\* `dst = src.clone()`
Clone(src, dst) == DoBind("clone", src, dst, clone(S, src))

\* The inputs the calls are given, for lists grown to size cap at most.
Positions(cap) == (-1 .. cap) \cup {NotInt}
Indices(cap) == (-(cap + 1) .. cap) \cup {NotInt}
PythonLists(cap) ==
    UNION {[1..n -> Payloads] : n \in 0..(IF cap < MaxSeq THEN cap ELSE MaxSeq)}

\* A list is not grown past size cap: the call that would is left out.
Within(l, cap) == lists'[l].size <= cap

\* The calls on list l.
Insertions(l, cap) ==
    \/ \E v \in Payloads : InsertAtBeginning(l, v) /\ Within(l, cap)
    \/ \E v \in Payloads : InsertAtEnd(l, v) /\ Within(l, cap)
    \/ \E t, v \in Payloads : InsertAfterNode(l, t, v) /\ Within(l, cap)
    \/ \E t, v \in Payloads : InsertBeforeNode(l, t, v) /\ Within(l, cap)

StackQueueInsertions(l, cap) ==
    \/ \E v \in Payloads : Push(l, v) /\ Within(l, cap)
    \/ \E v \in Payloads : Enqueue(l, v) /\ Within(l, cap)

Deletions(l, cap) ==
    \/ DeleteAtBeginning(l)
    \/ DeleteAtEnd(l)
    \/ \E v \in Payloads : DeleteValue(l, v)
    \/ \E p \in Positions(cap) : DeleteAtPosition(l, p)

StackQueueDeletions(l) ==
    \/ Pop(l)
    \/ Dequeue(l)

Rewrites(l, cap) ==
    \/ Clear(l)
    \/ Reverse(l)
    \/ \E rev \in BOOLEAN : Sort(l, rev)
    \/ RemoveDuplicates(l)
    \/ \E i \in Indices(cap), v \in Payloads : SetItem(l, i, v)
    \/ \E s \in PythonLists(cap) \cup {NotAPythonList} : FromPythonList(l, s)

Queries(l, cap) ==
    \/ \E i \in Indices(cap) : GetItem(l, i)
    \/ \E v \in Payloads : Contains(l, v)
    \/ GetSize(l)
    \/ IsEmpty(l)
    \/ ToPythonList(l)
    \/ Peek(l)
    \/ PeekFront(l)
    \/ PeekRear(l)
    \/ \E other \in {l, NotAList} : Eq(l, other)
    \/ \E value \in Payloads : In(l, value)

\* One list, every method; `dll = dll.clone()` goes on with the clone.
Next ==
    \/ Insertions(1, MaxLen)
    \/ StackQueueInsertions(1, MaxLen)
    \/ Deletions(1, MaxLen)
    \/ StackQueueDeletions(1)
    \/ Rewrites(1, MaxLen)
    \/ Queries(1, MaxLen)
    \/ Clone(1, 1)

Spec == Init /\ [][Next]_vars

\* One list, the insertions and deletions only.
NextEdit == Insertions(1, MaxEdit) \/ Deletions(1, MaxEdit)

SpecEdit == Init /\ [][NextEdit]_vars

\* One list holding ints and strings, grown at both ends, sorted, reversed
\* and deduplicated.
NextSort ==
    \/ \E v \in MixedPayloads : InsertAtBeginning(1, v) /\ Within(1, MaxSort)
    \/ \E v \in MixedPayloads : InsertAtEnd(1, v) /\ Within(1, MaxSort)
    \/ DeleteAtEnd(1)
    \/ \E rev \in BOOLEAN : Sort(1, rev)
    \/ RemoveDuplicates(1)
    \/ Reverse(1)

SpecSort == Init /\ [][NextSort]_vars

\* One list used as a stack.
NextStack ==
    \/ \E v \in Payloads : Push(1, v) /\ Within(1, MaxEdit)
    \/ Pop(1)
    \/ Peek(1)

SpecStack == Init /\ [][NextStack]_vars

\* One list used as a queue.
NextQueue ==
    \/ \E v \in Payloads : Enqueue(1, v) /\ Within(1, MaxEdit)
    \/ Dequeue(1)
    \/ PeekFront(1)
    \/ PeekRear(1)

SpecQueue == Init /\ [][NextQueue]_vars

\* One list grown at both ends, read and written by index.
NextIndex ==
    \/ \E v \in Payloads : InsertAtBeginning(1, v) /\ Within(1, MaxEdit)
    \/ \E v \in Payloads : InsertAtEnd(1, v) /\ Within(1, MaxEdit)
    \/ DeleteAtBeginning(1)
    \/ \E i \in Indices(MaxEdit) : GetItem(1, i)
    \/ \E i \in Indices(MaxEdit), v \in Payloads : SetItem(1, i, v)

SpecIndex == Init /\ [][NextIndex]_vars

\* Two lists built independently or by clone, and compared with each other,
\* with themselves and with an object that is no list.
NextEq ==
    \E l \in ListIds :
        \/ \E v \in Payloads : InsertAtBeginning(l, v) /\ Within(l, MaxEq)
        \/ \E v \in Payloads : InsertAtEnd(l, v) /\ Within(l, MaxEq)
        \/ DeleteAtEnd(l)
        \/ \E dst \in ListIds \ {l} : Clone(l, dst)
        \/ \E other \in ListIds \cup {NotAList} : Eq(l, other)

SpecEq == Init /\ [][NextEq]_vars

\* One list used as a list, as a stack and as a queue at once.
NextMix ==
    \/ \E v \in Payloads : InsertAtBeginning(1, v) /\ Within(1, MaxEdit)
    \/ \E v \in Payloads : InsertAtEnd(1, v) /\ Within(1, MaxEdit)
    \/ StackQueueInsertions(1, MaxEdit)
    \/ DeleteAtBeginning(1)
    \/ DeleteAtEnd(1)
    \/ StackQueueDeletions(1)
    \/ Peek(1)
    \/ PeekFront(1)

SpecMix == Init /\ [][NextMix]_vars

\* One list iterated forward and backward, and changed only while no
\* iteration over it is under way; its name may be bound to a new list at
\* any time.
NextWalk ==
    \/ IterStart(1)
    \/ ReversedStart(1)
    \/ IterNext
    \/ \E s \in PythonLists(1) : FromPythonList(1, s)
    \/ Clone(1, 1)
    \/ /\ ~Active
       /\ \/ \E v \in Payloads : InsertAtBeginning(1, v) /\ Within(1, MaxWalk)
          \/ \E v \in Payloads : InsertAtEnd(1, v) /\ Within(1, MaxWalk)
          \/ DeleteAtBeginning(1)

SpecWalk == Init /\ [][NextWalk]_vars

\* One list changed while an iteration over it is under way: between the
\* making of the generator and its end, one call on the list at most.
NextIter ==
    \/ IterStart(1)
    \/ ReversedStart(1)
    \/ IterNext
    \/ /\ ~(Active /\ iteration.mutated)
       /\ \/ Insertions(1, MaxLen)
          \/ Deletions(1, MaxLen)
          \/ Clear(1)
          \/ Reverse(1)
          \/ \E rev \in BOOLEAN : Sort(1, rev)
          \/ RemoveDuplicates(1)
          \/ \E i \in Indices(MaxLen), v \in Payloads : SetItem(1, i, v)

SpecIter == Init /\ [][NextIter]_vars

\* Two lists side by side: the second is made by clone, and both are changed.
NextPair ==
    \E l \in ListIds :
        \/ Insertions(l, MaxPair)
        \/ Deletions(l, MaxPair)
        \/ Rewrites(l, MaxPair)
        \/ \E dst \in ListIds \ {l} : Clone(l, dst)

SpecPair == Init /\ [][NextPair]_vars

\* ========================================================================
\* Properties
\* ========================================================================
\* to_sequence() of list l in the current state.
ToSeq(l) == to_python_list(S, l).seq

Rev(s) == [i \in 1..Len(s) |-> s[Len(s) + 1 - i]]

\* The nodes met from `current` on following next (forward) or prev, up to
\* the first None or the first node met twice.
RECURSIVE Walk(_, _, _, _)
Walk(h, current, forward, seen) ==
    IF current \notin DOMAIN h \/ current \in seen THEN <<>>
    ELSE <<current>>
         \o Walk(h, IF forward THEN h[current].next ELSE h[current].prev,
                 forward, seen \cup {current})

Forward(l) == Walk(heap, lists[l].head, TRUE, {})
Backward(l) == Walk(heap, lists[l].tail, FALSE, {})

\* Position (from 1) of the first element of s equal to x; 0 when absent.
FirstIndex(s, x) ==
    IF \E i \in DOMAIN s : s[i] = x
    THEN CHOOSE i \in DOMAIN s : s[i] = x /\ \A j \in 1..(i - 1) : s[j] # x
    ELSE 0

\* The reference array model.
RefInsertAt(s, i, x) == SubSeq(s, 1, i) \o <<x>> \o SubSeq(s, i + 1, Len(s))
RefRemoveAt(s, i) == SubSeq(s, 1, i - 1) \o SubSeq(s, i + 1, Len(s))

\* The call with outcome r agrees with the array model: when it returned the
\* list holds `after`, when it raised the list holds what it held.
RefCall(r, after) ==
    to_python_list(r.m, 1).seq = IF r.exc = NoExc THEN after ELSE ToSeq(1)

\* C1: to_python_list after any insert_* / delete_* call equals the same call
\* applied to the reference array (insert at index 0, at the end, right after
\* or before the first occurrence of the target; remove the first, the last,
\* the first matching, the indexed element); a failed call changes neither.
\* Stated of every call that can be made in every state the insertions and
\* deletions reach from the empty list.
C1_ArrayRefinement ==
    /\ \A v \in Payloads :
          RefCall(insert_at_beginning(S, 1, v), <<v>> \o ToSeq(1))
    /\ \A v \in Payloads :
          RefCall(insert_at_end(S, 1, v), ToSeq(1) \o <<v>>)
    /\ \A t, v \in Payloads :
          RefCall(insert_after_node(S, 1, t, v),
                  RefInsertAt(ToSeq(1), FirstIndex(ToSeq(1), t), v))
    /\ \A t, v \in Payloads :
          RefCall(insert_before_node(S, 1, t, v),
                  RefInsertAt(ToSeq(1), FirstIndex(ToSeq(1), t) - 1, v))
    /\ RefCall(delete_at_beginning(S, 1), RefRemoveAt(ToSeq(1), 1))
    /\ RefCall(delete_at_end(S, 1), RefRemoveAt(ToSeq(1), Len(ToSeq(1))))
    /\ \A v \in Payloads :
          RefCall(delete_value(S, 1, v),
                  RefRemoveAt(ToSeq(1), FirstIndex(ToSeq(1), v)))
    /\ \A p \in Positions(MaxEdit) :
          RefCall(delete_at_position(S, 1, p), RefRemoveAt(ToSeq(1), p + 1))

\* delete_at_position has just removed a node of a list of five, where the
\* positions past the middle are reached from the tail.
C1_Witness ==
    /\ result.op = "delete_at_position"
    /\ result.exc = NoExc
    /\ lists[1].size = 4
    /\ ToSeq(1)[1] # ToSeq(1)[2]

\* C2: size == 0 iff head is None iff tail is None, in the constructor's
\* state and after every call; is_empty() is true exactly then.
C2_EmptyIff ==
    \A l \in ListIds :
        /\ (lists[l].size = 0) <=> (lists[l].head = None)
        /\ (lists[l].head = None) <=> (lists[l].tail = None)
        /\ is_empty(S, l).flag <=> (lists[l].head = None)

\* The last element was just removed.
C2_Witness ==
    /\ result.op \in {"delete_at_beginning", "delete_at_end", "pop", "dequeue"}
    /\ result.exc = NoExc
    /\ lists[1].size = 0 /\ lists[1].head = None /\ lists[1].tail = None

\* C3: after every call head.prev is None, tail.next is None, and every node
\* n reachable from head has n.next None or n.next.prev = n, and n.prev None
\* or n.prev.next = n.
C3_LinkSymmetry ==
    \A l \in ListIds :
        /\ lists[l].head # None => heap[lists[l].head].prev = None
        /\ lists[l].tail # None => heap[lists[l].tail].next = None
        /\ \A i \in DOMAIN Forward(l) :
              LET n == Forward(l)[i]
              IN /\ heap[n].next = None \/ heap[heap[n].next].prev = n
                 /\ heap[n].prev = None \/ heap[heap[n].prev].next = n

\* A splice or reverse has just run on a list with interior nodes.
C3_Witness ==
    /\ result.op \in {"delete_value", "insert_before_node", "reverse"}
    /\ result.exc = NoExc
    /\ lists[1].size >= 3

\* C4: following next from head visits exactly size distinct nodes, the last
\* being tail; following prev from tail visits the same nodes in the
\* opposite order and ends at head; with size 1, head and tail are one node
\* whose links are both None.
C4_Traversal ==
    \A l \in ListIds :
        LET f == Forward(l)
            b == Backward(l)
        IN /\ Len(f) = lists[l].size
           /\ f # <<>> => f[Len(f)] = lists[l].tail /\ heap[f[Len(f)]].next = None
           /\ b = Rev(f)
           /\ b # <<>> => b[Len(b)] = lists[l].head /\ heap[b[Len(b)]].prev = None
           /\ lists[l].size = 1 =>
                 /\ lists[l].head = lists[l].tail
                 /\ heap[lists[l].head].next = None
                 /\ heap[lists[l].head].prev = None

\* pop has just left a single node.
C4_Witness ==
    /\ result.op = "pop"
    /\ result.exc = NoExc
    /\ lists[1].size = 1
    /\ lists[1].head = lists[1].tail

\* C5: a call that fails leaves the list as it was: same head, tail and
\* size, same links and same values.
C5_FailureLeavesUnchanged ==
    [][result'.exc # NoExc => heap' = heap /\ lists' = lists]_vars

\* Calls have failed on a list that holds elements.
C5_Witness ==
    /\ result.exc \in {TargetNotFound, ValueNotFound, OutOfRange, TypeMismatch,
                       InvalidValue}
    /\ lists[1].size >= 2

\* C6: None as the value to insert, through insert_at_beginning,
\* insert_at_end, insert_after_node, insert_before_node, push, enqueue or
\* __setitem__, raises ValueError (InvalidValue) and leaves the list
\* unchanged, size included.
C6_NoneRejected ==
    [][ (\/ result'.op = "insert_at_beginning" /\ InsertAtBeginning(1, None)
         \/ result'.op = "insert_at_end" /\ InsertAtEnd(1, None)
         \/ result'.op = "insert_after_node"
            /\ \E t \in Payloads : InsertAfterNode(1, t, None)
         \/ result'.op = "insert_before_node"
            /\ \E t \in Payloads : InsertBeforeNode(1, t, None)
         \/ result'.op = "push" /\ Push(1, None)
         \/ result'.op = "enqueue" /\ Enqueue(1, None)
         \/ result'.op = "__setitem__"
            /\ \E i \in Indices(MaxLen) : SetItem(1, i, None))
        => /\ result'.exc = InvalidValue
           /\ heap' = heap
           /\ lists' = lists
      ]_vars

\* An insertion was refused for None on a list that holds elements.
C6_Witness ==
    /\ result.op \in {"insert_at_beginning", "insert_at_end", "push", "enqueue"}
    /\ result.exc = InvalidValue
    /\ lists[1].size >= 1

\* C7: no node reachable from head holds None as its value.
C7_NoNonePayload ==
    \A l \in ListIds :
        \A i \in DOMAIN Forward(l) : heap[Forward(l)[i]].info # None

\* A payload was just overwritten, or a list built from a Python list.
C7_Witness ==
    /\ result.op \in {"__setitem__", "from_python_list"}
    /\ result.exc = NoExc
    /\ lists[1].size >= 2

\* The nodes of list l of machine state m, from head on.
NodesOf(m, l) == Range(Walk(m.heap, m.lists[l].head, TRUE, {}))

\* C8: reverse on a non-empty list makes to_python_list the reverse of what
\* it was, keeps size and the set of nodes, and exchanges head and tail; on
\* an empty list it raises RuntimeError (EmptyList).
C8_Reverse ==
    /\ [](LET r == reverse(S, 1)
          IN IF lists[1].size = 0
             THEN r.exc = EmptyList /\ r.m = S
             ELSE /\ r.exc = NoExc
                  /\ to_python_list(r.m, 1).seq = Rev(ToSeq(1))
                  /\ r.m.lists[1].size = lists[1].size
                  /\ DOMAIN r.m.heap = DOMAIN heap
                  /\ NodesOf(r.m, 1) = NodesOf(S, 1)
                  /\ r.m.lists[1].head = lists[1].tail
                  /\ r.m.lists[1].tail = lists[1].head)
    /\ [][Reverse(1) =>
            IF lists[1].size = 0
            THEN result'.exc = EmptyList /\ heap' = heap /\ lists' = lists
            ELSE /\ result'.exc = NoExc
                 /\ ToSeq(1)' = Rev(ToSeq(1))
                 /\ lists'[1].size = lists[1].size
       ]_vars

\* reverse has just turned a list that reads differently backwards.
C8_Witness ==
    /\ result.op = "reverse"
    /\ result.exc = NoExc
    /\ lists[1].size >= 3
    /\ ToSeq(1) # Rev(ToSeq(1))

\* C9: reverse twice on a non-empty list restores to_python_list, head, tail
\* and the next and prev link of every node.
C9_ReverseInvolution ==
    /\ [](lists[1].size > 0 =>
            LET once == reverse(S, 1)
                twice == reverse(once.m, 1)
            IN /\ once.exc = NoExc /\ twice.exc = NoExc
               /\ twice.m = S
               /\ to_python_list(twice.m, 1).seq = ToSeq(1))
    /\ [][(Reverse(1) /\ result'.exc = NoExc) =>
            LET again == reverse(S', 1)
            IN /\ again.exc = NoExc
               /\ Normalize(again.m) = S
               /\ to_python_list(again.m, 1).seq = ToSeq(1)
       ]_vars

\* reverse has just run on a list of two different elements or more.
C9_Witness ==
    /\ result.op = "reverse"
    /\ result.exc = NoExc
    /\ lists[1].size >= 2
    /\ ToSeq(1)[1] # ToSeq(1)[Len(ToSeq(1))]

\* Every node of list l of machine state m: what head and tail reach by
\* next and prev.
AllNodesOf(m, l) ==
    Closure(m.heap, {m.lists[l].head, m.lists[l].tail} \cap DOMAIN m.heap)

\* C10: clone returns a list with the values, order and size of the source,
\* shares no node with it and leaves the source unchanged, also when the
\* source is empty; afterwards a change of either list leaves the sequence
\* of the other unchanged.
C10_CloneIndependent ==
    /\ [](\A src \in ListIds :
            LET r == clone(S, src)
            IN /\ r.exc = NoExc
               /\ to_python_list(r.m, Fresh).seq = ToSeq(src)
               /\ r.m.lists[Fresh].size = lists[src].size
               /\ AllNodesOf(r.m, Fresh) \cap DOMAIN heap = {}
               /\ \A n \in DOMAIN heap : r.m.heap[n] = heap[n]
               /\ \A l \in ListIds : r.m.lists[l] = lists[l])
    /\ [](AllNodesOf(S, 1) \cap AllNodesOf(S, 2) = {})
    /\ [][\A src \in ListIds : \A dst \in ListIds \ {src} :
            Clone(src, dst) =>
                /\ result'.exc = NoExc
                /\ ToSeq(dst)' = ToSeq(src)
                /\ ToSeq(src)' = ToSeq(src)
                /\ lists'[dst].size = lists[src].size
       ]_vars
    /\ [][\A l \in ListIds : \A other \in ListIds \ {l} :
            (result'.op # "clone" /\ result'.lst = l) =>
                ToSeq(other)' = ToSeq(other)
       ]_vars

\* clone has just copied a list of two different elements.
C10_Witness ==
    /\ result.op = "clone"
    /\ result.exc = NoExc
    /\ lists[1].size = 2 /\ lists[2].size = 2
    /\ ToSeq(1) = ToSeq(2)
    /\ ToSeq(1)[1] # ToSeq(1)[2]

\* ------------------------------------------------------------------------
\* Sorting and deduplication
\* ------------------------------------------------------------------------
\* The values of s can all be compared with each other.
MutuallyComparable(s) ==
    \A i, j \in DOMAIN s : i # j => Comparable(s[i], s[j])

Count(s, x) == Cardinality({i \in DOMAIN s : s[i] = x})

\* t is a permutation of s.
Permutation(s, t) ==
    /\ Len(s) = Len(t)
    /\ \A x \in Range(s) \cup Range(t) : Count(s, x) = Count(t, x)

NonDecreasing(s) == \A i \in 1..(Len(s) - 1) : s[i] <= s[i + 1]
NonIncreasing(s) == \A i \in 1..(Len(s) - 1) : s[i] >= s[i + 1]

\* C11: sort() on a non-empty list of mutually comparable values leaves a
\* permutation of the former contents (same multiset, same size) in
\* non-decreasing order, and sort(reverse=True) leaves one in non-increasing
\* order.  Stated of the call in every reachable state, and of every sort
\* step taken.
C11_Sort ==
    /\ []((ToSeq(1) # <<>> /\ MutuallyComparable(ToSeq(1))) =>
            \A rev \in BOOLEAN :
                LET r == sort(S, 1, rev)
                    after == to_python_list(r.m, 1).seq
                IN /\ r.exc = NoExc
                   /\ Permutation(ToSeq(1), after)
                   /\ r.m.lists[1].size = lists[1].size
                   /\ IF rev THEN NonIncreasing(after)
                             ELSE NonDecreasing(after))
    /\ [][(result'.op = "sort" /\ ToSeq(1) # <<>>
           /\ MutuallyComparable(ToSeq(1))) =>
            /\ result'.exc = NoExc
            /\ Permutation(ToSeq(1), ToSeq(1)')
            /\ lists'[1].size = lists[1].size
            /\ (NonDecreasing(ToSeq(1)') \/ NonIncreasing(ToSeq(1)'))
       ]_vars

\* sort has just left a sorted list of three or more with two different
\* values.
C11_Witness ==
    /\ result.op = "sort"
    /\ result.exc = NoExc
    /\ lists[1].size >= 3
    /\ MutuallyComparable(ToSeq(1))
    /\ ToSeq(1)[1] > ToSeq(1)[Len(ToSeq(1))]

\* C12: sort() on an empty list and sort() on a list holding two values that
\* cannot be compared raise nothing and change nothing: head, tail, size,
\* every node and the value sequence are as before the call.
C12_SortSoftFailure ==
    /\ []((ToSeq(1) = <<>> \/ ~MutuallyComparable(ToSeq(1))) =>
            \A rev \in BOOLEAN :
                LET r == sort(S, 1, rev)
                IN /\ r.exc = NoExc
                   /\ r.m = S
                   /\ to_python_list(r.m, 1).seq = ToSeq(1))
    /\ [][(result'.op = "sort"
           /\ (ToSeq(1) = <<>> \/ ~MutuallyComparable(ToSeq(1)))) =>
            /\ result'.exc = NoExc
            /\ heap' = heap /\ lists' = lists
       ]_vars

\* sort has just returned on a list that holds an int after a string and is
\* not in order.
C12_Witness ==
    /\ result.op = "sort"
    /\ result.exc = NoExc
    /\ lists[1].size >= 3
    /\ ~MutuallyComparable(ToSeq(1))
    /\ \E i \in 1..(Len(ToSeq(1)) - 1) :
          IsStr(ToSeq(1)[i]) /\ ~IsStr(ToSeq(1)[i + 1])

\* The reference deduplication: the elements of s that no earlier element
\* equals, in their order.
RefDedup(s) ==
    LET keep == {i \in DOMAIN s : \A j \in 1..(i - 1) : s[j] # s[i]}
    IN [k \in 1..Cardinality(keep) |->
            s[CHOOSE i \in keep : Cardinality({j \in keep : j < i}) = k - 1]]

\* C13: remove_duplicates() on a non-empty list leaves each distinct value of
\* the former contents exactly once, in the order of first occurrence (a list
\* without duplicates keeps its sequence); on an empty list it raises
\* RuntimeError and leaves the list empty.
C13_RemoveDuplicates ==
    /\ [](LET r == remove_duplicates(S, 1)
              after == to_python_list(r.m, 1).seq
          IN IF ToSeq(1) = <<>>
             THEN r.exc = EmptyList /\ r.m = S
             ELSE /\ r.exc = NoExc
                  /\ after = RefDedup(ToSeq(1))
                  /\ Range(after) = Range(ToSeq(1))
                  /\ \A x \in Range(after) : Count(after, x) = 1
                  /\ r.m.lists[1].size = Len(after))
    /\ [][result'.op = "remove_duplicates" =>
            IF ToSeq(1) = <<>>
            THEN result'.exc = EmptyList /\ heap' = heap /\ lists' = lists
            ELSE /\ result'.exc = NoExc
                 /\ ToSeq(1)' = RefDedup(ToSeq(1))
                 /\ lists'[1].size = Len(RefDedup(ToSeq(1)))
       ]_vars

\* remove_duplicates has just left two values or more, on a list that still
\* has room for the duplicates it removed.
C13_Witness ==
    /\ result.op = "remove_duplicates"
    /\ result.exc = NoExc
    /\ lists[1].size >= 2
    /\ ToSeq(1)[1] # ToSeq(1)[2]

\* ------------------------------------------------------------------------
\* Stack and queue
\* ------------------------------------------------------------------------
Last(s) == s[Len(s)]
Front(s) == SubSeq(s, 1, Len(s) - 1)
Rest(s) == SubSeq(s, 2, Len(s))

\* C14: on a list driven by push, pop and peek, to_python_list is the stack
\* of the values pushed and not yet popped, oldest first: push adds its value
\* at the end, pop removes and returns the last value (so pop after push
\* returns the value pushed and restores the stack) and decrements size, peek
\* returns the last value; pop and peek on the empty list raise "Stack must
\* not be empty" and leave it empty; popping the only value leaves head None,
\* tail None and size 0.
C14_StackLifo ==
    /\ [](/\ \A v \in Values :
               LET pushed == push(S, 1, v)
                   popped == pop(pushed.m, 1)
               IN /\ pushed.exc = NoExc
                  /\ to_python_list(pushed.m, 1).seq = Append(ToSeq(1), v)
                  /\ peek(pushed.m, 1).val = v
                  /\ popped.exc = NoExc /\ popped.val = v
                  /\ to_python_list(popped.m, 1).seq = ToSeq(1)
                  /\ popped.m.lists[1].size = lists[1].size
          /\ IF ToSeq(1) = <<>>
             THEN /\ lists[1] = EmptyDll
                  /\ pop(S, 1).exc = EmptyStack /\ pop(S, 1).m = S
                  /\ peek(S, 1).exc = EmptyStack /\ peek(S, 1).m = S
             ELSE /\ pop(S, 1).exc = NoExc
                  /\ pop(S, 1).val = Last(ToSeq(1))
                  /\ to_python_list(pop(S, 1).m, 1).seq = Front(ToSeq(1))
                  /\ pop(S, 1).m.lists[1].size = lists[1].size - 1
                  /\ lists[1].size = 1 => pop(S, 1).m.lists[1] = EmptyDll
                  /\ peek(S, 1).exc = NoExc
                  /\ peek(S, 1).val = Last(ToSeq(1))
                  /\ peek(S, 1).m = S)
    /\ [][/\ (result'.op = "push" /\ result'.exc = NoExc) =>
               /\ Front(ToSeq(1)') = ToSeq(1)
               /\ lists'[1].size = lists[1].size + 1
          /\ result'.op = "pop" =>
               IF ToSeq(1) = <<>>
               THEN result'.exc = EmptyStack /\ lists' = lists /\ heap' = heap
               ELSE /\ result'.exc = NoExc
                    /\ result'.val = Last(ToSeq(1))
                    /\ ToSeq(1)' = Front(ToSeq(1))
                    /\ lists'[1].size = lists[1].size - 1
          /\ result'.op = "peek" =>
               /\ lists' = lists /\ heap' = heap
               /\ IF ToSeq(1) = <<>> THEN result'.exc = EmptyStack
                  ELSE result'.exc = NoExc /\ result'.val = Last(ToSeq(1))
       ]_vars

\* pop has just returned a value other than the one now on top, from a
\* stack whose bottom and top differ.
C14_Witness ==
    /\ result.op = "pop"
    /\ result.exc = NoExc
    /\ lists[1].size >= 2
    /\ result.val # Last(ToSeq(1))
    /\ ToSeq(1)[1] # Last(ToSeq(1))

\* C15: on a list driven from empty by enqueue, dequeue, peek_front and
\* peek_rear, to_python_list is the queue of the values enqueued and not yet
\* dequeued, oldest first: enqueue adds its value at the end, dequeue removes
\* and returns the first value and decrements size (so the k-th dequeue
\* returns the k-th value enqueued), peek_front returns the first and
\* peek_rear the last; the three raise "Queue must not be empty" on the empty
\* list; dequeuing the only value leaves the list empty.
C15_QueueFifo ==
    /\ [](/\ \A v \in Values :
               LET queued == enqueue(S, 1, v)
               IN /\ queued.exc = NoExc
                  /\ to_python_list(queued.m, 1).seq = Append(ToSeq(1), v)
                  /\ peek_rear(queued.m, 1).val = v
                  /\ peek_front(queued.m, 1).val = Append(ToSeq(1), v)[1]
          /\ IF ToSeq(1) = <<>>
             THEN /\ lists[1] = EmptyDll
                  /\ dequeue(S, 1).exc = EmptyQueue /\ dequeue(S, 1).m = S
                  /\ peek_front(S, 1).exc = EmptyQueue
                  /\ peek_rear(S, 1).exc = EmptyQueue
             ELSE /\ dequeue(S, 1).exc = NoExc
                  /\ dequeue(S, 1).val = ToSeq(1)[1]
                  /\ to_python_list(dequeue(S, 1).m, 1).seq = Rest(ToSeq(1))
                  /\ dequeue(S, 1).m.lists[1].size = lists[1].size - 1
                  /\ lists[1].size = 1 => dequeue(S, 1).m.lists[1] = EmptyDll
                  /\ peek_front(S, 1).exc = NoExc
                  /\ peek_front(S, 1).val = ToSeq(1)[1]
                  /\ peek_rear(S, 1).exc = NoExc
                  /\ peek_rear(S, 1).val = Last(ToSeq(1)))
    /\ [][/\ (result'.op = "enqueue" /\ result'.exc = NoExc) =>
               /\ Front(ToSeq(1)') = ToSeq(1)
               /\ lists'[1].size = lists[1].size + 1
          /\ result'.op = "dequeue" =>
               IF ToSeq(1) = <<>>
               THEN result'.exc = EmptyQueue /\ lists' = lists /\ heap' = heap
               ELSE /\ result'.exc = NoExc
                    /\ result'.val = ToSeq(1)[1]
                    /\ ToSeq(1)' = Rest(ToSeq(1))
                    /\ lists'[1].size = lists[1].size - 1
          /\ result'.op = "peek_front" =>
               IF ToSeq(1) = <<>> THEN result'.exc = EmptyQueue
               ELSE result'.exc = NoExc /\ result'.val = ToSeq(1)[1]
          /\ result'.op = "peek_rear" =>
               IF ToSeq(1) = <<>> THEN result'.exc = EmptyQueue
               ELSE result'.exc = NoExc /\ result'.val = Last(ToSeq(1))
       ]_vars

\* dequeue has just returned a value other than the one now at the front,
\* from a queue whose front and rear differ.
C15_Witness ==
    /\ result.op = "dequeue"
    /\ result.exc = NoExc
    /\ lists[1].size >= 2
    /\ result.val # ToSeq(1)[1]
    /\ ToSeq(1)[1] # Last(ToSeq(1))

\* ------------------------------------------------------------------------
\* Indexed access
\* ------------------------------------------------------------------------
\* The int indices tried: every index of the longest list, and some past
\* both ends.
IntIndices == -(MaxEdit + 2) .. (MaxEdit + 1)

InRange(index) == -lists[1].size <= index /\ index < lists[1].size

\* The position (from 0) a signed index in range stands for.
RefPosition(index) == IF index >= 0 THEN index ELSE index + lists[1].size

\* C16: __getitem__ with an int index in [-size, size) returns the element
\* of to_python_list at position index (index >= 0) or index + size
\* (index < 0); with any other int index, and with any int index on the empty
\* list, it raises IndexError.  It changes nothing.
C16_GetItem ==
    /\ [](\A index \in IntIndices :
            LET r == getitem(S, 1, index)
            IN /\ r.m = S
               /\ IF InRange(index)
                  THEN /\ r.exc = NoExc
                       /\ r.val = ToSeq(1)[RefPosition(index) + 1]
                  ELSE r.exc = OutOfRange)
    /\ []((lists[1].size > 0) =>
            /\ getitem(S, 1, -1).val = ToSeq(1)[Len(ToSeq(1))]
            /\ getitem(S, 1, -lists[1].size).val = ToSeq(1)[1])
    /\ [][result'.op = "__getitem__" =>
            /\ heap' = heap /\ lists' = lists
            /\ result'.exc \in {NoExc, OutOfRange, TypeMismatch}
            /\ result'.exc = NoExc =>
                  \E index \in IntIndices :
                      /\ InRange(index)
                      /\ result'.val = ToSeq(1)[RefPosition(index) + 1]
            /\ ToSeq(1) = <<>> => result'.exc # NoExc
       ]_vars

\* __getitem__ has just returned an element of a list of five whose last
\* two elements differ (the positions past the middle are reached from the
\* tail).
C16_Witness ==
    /\ result.op = "__getitem__"
    /\ result.exc = NoExc
    /\ lists[1].size = 5
    /\ ToSeq(1)[4] # ToSeq(1)[5]
    /\ result.val = ToSeq(1)[4]

\* C17: __setitem__ with a value other than None and an int index in
\* [-size, size) stores the value in the node at the resolved position and
\* changes nothing else: size, head, tail, every link and the value at every
\* other position stay, and __getitem__ with the same index then returns the
\* value.  With an int index outside [-size, size) it raises IndexError and
\* changes nothing.
C17_SetItem ==
    /\ [](\A index \in IntIndices : \A value \in Values :
            LET r == setitem(S, 1, index, value)
                position == RefPosition(index)
            IN IF InRange(index)
               THEN /\ r.exc = NoExc
                    /\ r.m.lists = lists
                    /\ r.m.heap =
                         [heap EXCEPT ![Forward(1)[position + 1]].info = value]
                    /\ to_python_list(r.m, 1).seq =
                         [ToSeq(1) EXCEPT ![position + 1] = value]
                    /\ getitem(r.m, 1, index).exc = NoExc
                    /\ getitem(r.m, 1, index).val = value
               ELSE r.exc = OutOfRange /\ r.m = S)
    /\ [][result'.op = "__setitem__" =>
            /\ lists' = lists
            /\ DOMAIN heap' = DOMAIN heap
            /\ \A n \in DOMAIN heap :
                  heap'[n].next = heap[n].next /\ heap'[n].prev = heap[n].prev
            /\ Cardinality({n \in DOMAIN heap : heap'[n].info # heap[n].info})
                  <= 1
            /\ result'.exc # NoExc => heap' = heap
       ]_vars

\* __setitem__ has just returned on a list of five whose last two elements
\* differ.
C17_Witness ==
    /\ result.op = "__setitem__"
    /\ result.exc = NoExc
    /\ lists[1].size = 5
    /\ ToSeq(1)[4] # ToSeq(1)[5]

\* ------------------------------------------------------------------------
\* Equality
\* ------------------------------------------------------------------------
\* Same size and equal values at every position.
SameContents(a, b) ==
    /\ lists[a].size = lists[b].size
    /\ Len(ToSeq(a)) = Len(ToSeq(b))
    /\ \A i \in 1..Len(ToSeq(a)) : ToSeq(a)[i] = ToSeq(b)[i]

\* C18: `a == b` is True exactly when a and b have the same size and equal
\* values at every position, however they were built (two empty lists are
\* equal, a list equals its clone and itself); `a == other` for an object
\* that is no list is False; no comparison raises, and none changes a list.
C18_Equality ==
    /\ [](\A a \in ListIds :
            /\ \A b \in ListIds :
                  LET r == eq(S, a, b)
                  IN /\ r.exc = NoExc
                     /\ r.m = S
                     /\ r.flag <=> SameContents(a, b)
            /\ LET r == eq(S, a, NotAList)
               IN r.exc = NoExc /\ r.m = S /\ r.flag = FALSE
            /\ LET cloned == clone(S, a).m
               IN /\ eq(cloned, a, Fresh).flag
                  /\ eq(cloned, Fresh, a).flag)
    /\ [][result'.op = "__eq__" =>
            /\ heap' = heap /\ lists' = lists
            /\ result'.exc = NoExc
            /\ \A a, b \in ListIds :
                  Eq(a, b) => (result'.flag <=> SameContents(a, b))
            /\ \A a \in ListIds : Eq(a, NotAList) => result'.flag = FALSE
       ]_vars

\* `==` has just returned True on list 1, and the two lists hold the same
\* two different values in the same order.
C18_Witness ==
    /\ result.op = "__eq__"
    /\ result.flag
    /\ lists[1].size >= 2
    /\ SameContents(1, 2)
    /\ ToSeq(1)[1] # ToSeq(1)[2]

\* ------------------------------------------------------------------------
\* Deletions
\* ------------------------------------------------------------------------
\* The nodes of list l of machine state m in traversal order.
ChainOf(m, l) == Walk(m.heap, m.lists[l].head, TRUE, {})

\* Machine state m differs from the current one in the records of the nodes
\* `touched` at most.
SameNodesBut(m, touched) ==
    /\ DOMAIN m.heap = DOMAIN heap
    /\ \A n \in DOMAIN heap \ touched : m.heap[n] = heap[n]

\* C19: delete_at_beginning and delete_at_end raise RuntimeError on the
\* empty list; on a list of one element either leaves head None, tail None,
\* size 0; on a longer list delete_at_beginning removes the first element and
\* delete_at_end the last: the neighbour becomes head (tail) with prev
\* (next) None, the other nodes and their order stay, size goes down by one.
C19_DeleteEnds ==
    /\ [](LET front == delete_at_beginning(S, 1)
              back == delete_at_end(S, 1)
              chain == Forward(1)
          IN IF lists[1].size = 0
             THEN /\ front.exc = EmptyList /\ front.m = S
                  /\ back.exc = EmptyList /\ back.m = S
             ELSE IF lists[1].size = 1
             THEN /\ front.exc = NoExc /\ front.m.lists[1] = EmptyDll
                  /\ back.exc = NoExc /\ back.m.lists[1] = EmptyDll
             ELSE /\ front.exc = NoExc
                  /\ front.m.lists[1] =
                       [head |-> heap[lists[1].head].next,
                        tail |-> lists[1].tail,
                        size |-> lists[1].size - 1]
                  /\ front.m.heap[front.m.lists[1].head].prev = None
                  /\ SameNodesBut(front.m, {front.m.lists[1].head})
                  /\ ChainOf(front.m, 1) = Rest(chain)
                  /\ to_python_list(front.m, 1).seq = Rest(ToSeq(1))
                  /\ back.exc = NoExc
                  /\ back.m.lists[1] =
                       [head |-> lists[1].head,
                        tail |-> heap[lists[1].tail].prev,
                        size |-> lists[1].size - 1]
                  /\ back.m.heap[back.m.lists[1].tail].next = None
                  /\ SameNodesBut(back.m, {back.m.lists[1].tail})
                  /\ ChainOf(back.m, 1) = Front(chain)
                  /\ to_python_list(back.m, 1).seq = Front(ToSeq(1)))
    /\ [][/\ result'.op = "delete_at_beginning" =>
               IF lists[1].size = 0
               THEN result'.exc = EmptyList /\ heap' = heap /\ lists' = lists
               ELSE /\ result'.exc = NoExc
                    /\ ToSeq(1)' = Rest(ToSeq(1))
                    /\ lists'[1].size = lists[1].size - 1
                    /\ lists[1].size = 1 => lists'[1] = EmptyDll
          /\ result'.op = "delete_at_end" =>
               IF lists[1].size = 0
               THEN result'.exc = EmptyList /\ heap' = heap /\ lists' = lists
               ELSE /\ result'.exc = NoExc
                    /\ ToSeq(1)' = Front(ToSeq(1))
                    /\ lists'[1].size = lists[1].size - 1
                    /\ lists[1].size = 1 => lists'[1] = EmptyDll
       ]_vars

\* delete_at_end has just left three elements or more, the first and the
\* last of them different.
C19_Witness ==
    /\ result.op = "delete_at_end"
    /\ result.exc = NoExc
    /\ lists[1].size >= 3
    /\ ToSeq(1)[1] # Last(ToSeq(1))

\* C20: delete_value(value) on a list that holds value removes the first
\* node from head on whose info is value, and nothing else: the other nodes
\* (later occurrences of value among them) keep their order, and size goes
\* down by exactly one, whether the node is the head, the tail, the only
\* node or an interior node.
C20_DeleteValueFirst ==
    /\ [](\A value \in Values :
            (\E i \in DOMAIN ToSeq(1) : ToSeq(1)[i] = value) =>
                LET r == delete_value(S, 1, value)
                    first == FirstIndex(ToSeq(1), value)
                    chain == Forward(1)
                IN /\ r.exc = NoExc
                   /\ r.m.lists[1].size = lists[1].size - 1
                   /\ ChainOf(r.m, 1) = RefRemoveAt(chain, first)
                   /\ to_python_list(r.m, 1).seq = RefRemoveAt(ToSeq(1), first)
                   /\ \A n \in Range(ChainOf(r.m, 1)) :
                         r.m.heap[n].info = heap[n].info
                   /\ Count(to_python_list(r.m, 1).seq, value)
                         = Count(ToSeq(1), value) - 1)
    /\ [][(result'.op = "delete_value" /\ result'.exc = NoExc) =>
            /\ lists'[1].size = lists[1].size - 1
            /\ \E value \in Values :
                  /\ FirstIndex(ToSeq(1), value) > 0
                  /\ ToSeq(1)' = RefRemoveAt(ToSeq(1), FirstIndex(ToSeq(1), value))
       ]_vars

\* delete_value has just removed the first occurrence of a value that the
\* list still holds as its last element, after elements of another value.
C20_Witness ==
    /\ result.op = "delete_value"
    /\ result.exc = NoExc
    /\ lists[1].size >= 3
    /\ ToSeq(1)[1] # Last(ToSeq(1))
    /\ ToSeq(1)[2] # Last(ToSeq(1))

\* The list holds an element equal to value.
Holds(value) == \E i \in DOMAIN ToSeq(1) : ToSeq(1)[i] = value

\* C21, as claimed: delete_value(value) with any argument, None included,
\* raises the RuntimeError of an empty list when the list is empty, and
\* "does not exist" when the list is not empty and holds no element equal
\* to value (so a call that fails on a non-empty list fails that way); the
\* list is unchanged.
C21_AsClaimed ==
    [][result'.op = "delete_value" =>
        /\ lists[1].size = 0 =>
              result'.exc = EmptyList /\ heap' = heap /\ lists' = lists
        /\ (lists[1].size > 0 /\ result'.exc # NoExc) =>
              result'.exc = ValueNotFound /\ heap' = heap /\ lists' = lists
      ]_vars

\* C21, amended: delete_value(None) raises the ValueError of
\* _validate_value on every list, the empty one included; with a value other
\* than None, delete_value raises the RuntimeError of an empty list when the
\* list is empty and "does not exist" when the list is not empty and holds
\* no element equal to value.  In all three cases the list is unchanged.
C21_DeleteValueErrors ==
    /\ [](/\ LET r == delete_value(S, 1, None)
              IN r.exc = InvalidValue /\ r.m = S
          /\ \A value \in Values :
               LET r == delete_value(S, 1, value)
               IN IF lists[1].size = 0
                  THEN r.exc = EmptyList /\ r.m = S
                  ELSE ~Holds(value) => (r.exc = ValueNotFound /\ r.m = S))
    /\ [][(result'.op = "delete_value" /\ result'.exc # NoExc) =>
            /\ heap' = heap /\ lists' = lists
            /\ result'.exc \in {InvalidValue, EmptyList, ValueNotFound}
            /\ result'.exc = EmptyList => lists[1].size = 0
            /\ result'.exc = ValueNotFound =>
                  (lists[1].size > 0 /\ \E value \in Values : ~Holds(value))
       ]_vars

\* delete_value has just failed to find a value in a list of two elements
\* or more.
C21_Witness ==
    /\ result.op = "delete_value"
    /\ result.exc = ValueNotFound
    /\ lists[1].size >= 2

\* The positions tried: every int position of the longest list, some past
\* both ends, and one that is not an int.
AnyPositions == IntIndices \cup {NotInt}

\* C22: delete_at_position raises the RuntimeError of an empty list on the
\* empty list whatever the position; on a non-empty list it raises IndexError
\* for an int position < 0 or >= size (a negative position is not counted
\* from the end), and otherwise removes the node at that position: the other
\* nodes keep their order and size goes down by exactly one.
C22_DeleteAtPosition ==
    /\ [](\A position \in AnyPositions :
            LET r == delete_at_position(S, 1, position)
                chain == Forward(1)
            IN IF lists[1].size = 0
               THEN r.exc = EmptyList /\ r.m = S
               ELSE IF position = NotInt THEN TRUE
               ELSE IF position < 0 \/ position >= lists[1].size
               THEN r.exc = OutOfRange /\ r.m = S
               ELSE /\ r.exc = NoExc
                    /\ r.m.lists[1].size = lists[1].size - 1
                    /\ ChainOf(r.m, 1) = RefRemoveAt(chain, position + 1)
                    /\ to_python_list(r.m, 1).seq =
                         RefRemoveAt(ToSeq(1), position + 1)
                    /\ \A n \in Range(ChainOf(r.m, 1)) :
                          r.m.heap[n].info = heap[n].info)
    /\ [][result'.op = "delete_at_position" =>
            IF lists[1].size = 0
            THEN result'.exc = EmptyList /\ heap' = heap /\ lists' = lists
            ELSE /\ result'.exc \in {NoExc, OutOfRange, TypeMismatch}
                 /\ result'.exc # NoExc => (heap' = heap /\ lists' = lists)
                 /\ result'.exc = NoExc =>
                       /\ lists'[1].size = lists[1].size - 1
                       /\ \E position \in 0..(lists[1].size - 1) :
                             ToSeq(1)' = RefRemoveAt(ToSeq(1), position + 1)
       ]_vars

\* delete_at_position has just removed a node of a list of five and left
\* four whose last two differ.
C22_Witness ==
    /\ result.op = "delete_at_position"
    /\ result.exc = NoExc
    /\ lists[1].size = 4
    /\ ToSeq(1)[3] # ToSeq(1)[4]

\* C23: insert_after_node(target, new) puts a new node right after the first
\* node from head that holds target, insert_before_node right before it,
\* also when target occurs several times; the former nodes keep their order
\* and infos and size grows by exactly one; after the tail the new node is
\* the tail, before the head it is the head.
C23_InsertAdjacent ==
    /\ [](\A target \in Values : \A new \in Values :
            Holds(target) =>
                LET first == FirstIndex(ToSeq(1), target)
                    chain == Forward(1)
                    after == insert_after_node(S, 1, target, new)
                    before == insert_before_node(S, 1, target, new)
                    made == NewId(heap)
                IN /\ after.exc = NoExc
                   /\ after.m.lists[1].size = lists[1].size + 1
                   /\ ChainOf(after.m, 1) = RefInsertAt(chain, first, made)
                   /\ to_python_list(after.m, 1).seq =
                        RefInsertAt(ToSeq(1), first, new)
                   /\ \A n \in DOMAIN heap : after.m.heap[n].info = heap[n].info
                   /\ after.m.lists[1].head = lists[1].head
                   /\ after.m.lists[1].tail =
                        IF first = Len(chain) THEN made ELSE lists[1].tail
                   /\ before.exc = NoExc
                   /\ before.m.lists[1].size = lists[1].size + 1
                   /\ ChainOf(before.m, 1) = RefInsertAt(chain, first - 1, made)
                   /\ to_python_list(before.m, 1).seq =
                        RefInsertAt(ToSeq(1), first - 1, new)
                   /\ \A n \in DOMAIN heap : before.m.heap[n].info = heap[n].info
                   /\ before.m.lists[1].tail = lists[1].tail
                   /\ before.m.lists[1].head =
                        IF first = 1 THEN made ELSE lists[1].head)
    /\ [][(result'.op \in {"insert_after_node", "insert_before_node"}
           /\ result'.exc = NoExc) =>
            /\ lists'[1].size = lists[1].size + 1
            /\ \E target \in Values : \E new \in Values :
                  /\ Holds(target)
                  /\ ToSeq(1)' =
                       RefInsertAt(ToSeq(1),
                                   IF result'.op = "insert_after_node"
                                   THEN FirstIndex(ToSeq(1), target)
                                   ELSE FirstIndex(ToSeq(1), target) - 1,
                                   new)
       ]_vars

\* insert_after_node has just put a value between two elements of another
\* value.
C23_Witness ==
    /\ result.op = "insert_after_node"
    /\ result.exc = NoExc
    /\ lists[1].size >= 3
    /\ ToSeq(1)[1] # ToSeq(1)[2]
    /\ ToSeq(1)[3] = ToSeq(1)[1]

\* C24: insert_after_node and insert_before_node with a target and a new
\* value other than None raise "has not been found" when no element equals
\* the target, hence on every call on the empty list, and leave the list
\* unchanged.
C24_TargetNotFound ==
    /\ [](\A target \in Values : \A new \in Values :
            ~Holds(target) =>
                LET after == insert_after_node(S, 1, target, new)
                    before == insert_before_node(S, 1, target, new)
                IN /\ after.exc = TargetNotFound /\ after.m = S
                   /\ before.exc = TargetNotFound /\ before.m = S)
    /\ [][result'.op \in {"insert_after_node", "insert_before_node"} =>
            /\ result'.exc = TargetNotFound =>
                  /\ heap' = heap /\ lists' = lists
                  /\ \E target \in Values : ~Holds(target)
            /\ lists[1].size = 0 =>
                  result'.exc \in {TargetNotFound, InvalidValue}
       ]_vars

\* insert_before_node has just failed to find its target in a list of two
\* elements or more.
C24_Witness ==
    /\ result.op = "insert_before_node"
    /\ result.exc = TargetNotFound
    /\ lists[1].size >= 2

\* ------------------------------------------------------------------------
\* Iteration and queries
\* ------------------------------------------------------------------------
\* The generator g after k calls of next on the current state.
RECURSIVE GenAfter(_, _)
GenAfter(g, k) == IF k = 0 THEN g ELSE gen_next(S, GenAfter(g, k - 1)).g

\* C25: with no call on the list between the steps, iterating forward
\* yields the values of to_python_list from head to tail, one for each next,
\* and then ends (every later next raises StopIteration too), iterating with
\* reversed yields them from tail to head; an iteration started afresh
\* yields the same again; an empty list yields nothing and raises nothing;
\* no step changes the list, and binding the list's name to a new list
\* leaves the iteration on the list it was started on.
C25_Iteration ==
    /\ [](\A forward \in BOOLEAN :
            LET r == iterate(S, 1, forward)
                expected == IF forward THEN ToSeq(1) ELSE Rev(ToSeq(1))
                g == GenNew(1, forward)
                n == lists[1].size
            IN /\ r.exc = NoExc
               /\ r.seq = expected
               /\ Len(r.seq) = n
               /\ r.m = S
               /\ \A k \in 1..n :
                     /\ gen_next(S, GenAfter(g, k - 1)).exc = NoExc
                     /\ gen_next(S, GenAfter(g, k - 1)).val = expected[k]
               /\ gen_next(S, GenAfter(g, n)).exc = StopIteration
               /\ gen_next(S, GenAfter(g, n + 1)).exc = StopIteration
               /\ Drain(r.m, GenNew(1, forward), Fuel(r.m)).seq = expected)
    /\ [][/\ result'.op \in {"iter", "reversed"} =>
               /\ lists'[1] = lists[1]
               /\ lists[Held] = EmptyDll => heap' = heap /\ lists' = lists
               /\ iteration'.g
                     = GenNew(1, result'.op = "iter")
               /\ iteration'.yielded = <<>>
          /\ (result'.op = "next" /\ Active) =>
               LET src == iteration.g.lst
                   k == Len(iteration.yielded) + 1
                   expected == IF iteration.g.forward
                               THEN ToSeq(src) ELSE Rev(ToSeq(src))
               IN /\ lists'[1] = lists[1]
                  /\ IF k <= lists[src].size
                     THEN /\ result'.exc = NoExc
                          /\ result'.val = expected[k]
                          /\ iteration'.g.pc = "suspended"
                          /\ heap' = heap /\ lists' = lists
                     ELSE /\ result'.exc = StopIteration
                          /\ iteration'.g.pc = "done"
                          /\ lists'[Held] = EmptyDll
                          /\ src # Held => heap' = heap /\ lists' = lists
          /\ (result'.op = "next" /\ ~Active) =>
               /\ result'.exc = StopIteration
               /\ heap' = heap /\ lists' = lists
          /\ (result'.op \in {"clone", "from_python_list"} /\ Active) =>
               IF result'.exc = NoExc
               THEN /\ iteration'.g.lst = Held
                    /\ iteration'.g.pc = iteration.g.pc
                    /\ ToSeq(Held)' = ToSeq(iteration.g.lst)
               ELSE /\ iteration'.g = iteration.g
                    /\ heap' = heap /\ lists' = lists
       ]_vars

\* The third next of a reversed iteration has just yielded the head of a
\* list of three whose ends differ.
C25_Witness ==
    /\ result.op = "next"
    /\ result.exc = NoExc
    /\ ~iteration.g.forward
    /\ iteration.g.lst = 1
    /\ Len(iteration.yielded) = 3
    /\ lists[1].size = 3
    /\ result.val = ToSeq(1)[1]
    /\ ToSeq(1)[1] # ToSeq(1)[3]

QueryOps ==
    {"get_size", "is_empty", "contains", "__contains__", "to_python_list",
     "__getitem__", "peek", "peek_front", "peek_rear"}

\* C26: get_size, is_empty, contains (and `in`), to_python_list,
\* __getitem__, peek, peek_front and peek_rear leave the heap (every link
\* and every value) and the list object (head, tail, size) as they were, for
\* every argument, whether they return or raise.
C26_QueriesFrame ==
    /\ [](/\ get_size(S, 1).m = S
          /\ is_empty(S, 1).m = S
          /\ to_python_list(S, 1).m = S
          /\ peek(S, 1).m = S
          /\ peek_front(S, 1).m = S
          /\ peek_rear(S, 1).m = S
          /\ \A value \in Payloads :
                contains(S, 1, value).m = S /\ contains_in(S, 1, value).m = S
          /\ \A index \in Indices(MaxLen) : getitem(S, 1, index).m = S)
    /\ [][result'.op \in QueryOps => (heap' = heap /\ lists' = lists)]_vars

\* peek has just returned the top of a stack of two or more, which is still
\* there.
C26_Witness ==
    /\ result.op = "peek"
    /\ result.exc = NoExc
    /\ lists[1].size >= 2
    /\ result.val = ToSeq(1)[Len(ToSeq(1))]

\* C27: for a value other than None, contains(value) and `value in l`
\* return True exactly when some element of to_python_list equals value,
\* hence False on the empty list; with None they raise InvalidValue.
C27_Contains ==
    /\ [](/\ \A value \in Values :
                /\ contains(S, 1, value).exc = NoExc
                /\ contains(S, 1, value).flag = Holds(value)
                /\ contains_in(S, 1, value).exc = NoExc
                /\ contains_in(S, 1, value).flag = Holds(value)
                /\ lists[1].size = 0 => ~contains(S, 1, value).flag
          /\ contains(S, 1, None).exc = InvalidValue
          /\ contains_in(S, 1, None).exc = InvalidValue)
    /\ [][result'.op \in {"contains", "__contains__"} =>
            /\ result'.exc \in {NoExc, InvalidValue}
            /\ result'.exc = NoExc =>
                  /\ result'.flag \in BOOLEAN
                  /\ result'.flag => \E value \in Values : Holds(value)
                  /\ lists[1].size = 0 => ~result'.flag
       ]_vars

\* contains has just returned True on a list whose head holds another value.
C27_Witness ==
    /\ result.op = "contains"
    /\ result.exc = NoExc
    /\ result.flag = TRUE
    /\ lists[1].size >= 2
    /\ \E value \in Values : Holds(value) /\ ToSeq(1)[1] # value

\* ------------------------------------------------------------------------
\* Python lists and back
\* ------------------------------------------------------------------------
\* C28: for every Python list s without None, from_python_list(s) returns a
\* list whose to_python_list is s and whose size is len(s) (the empty list
\* for s = []); for every reachable list L,
\* from_python_list(L.to_python_list()) == L both ways round; when s holds a
\* None, from_python_list(s) raises InvalidValue.
C28_RoundTrip ==
    /\ [](/\ \A s \in PythonLists(MaxLen) :
                LET r == from_python_list(S, s)
                IN IF \E i \in DOMAIN s : s[i] = None
                   THEN r.exc = InvalidValue
                   ELSE /\ r.exc = NoExc
                        /\ to_python_list(r.m, Fresh).exc = NoExc
                        /\ to_python_list(r.m, Fresh).seq = s
                        /\ get_size(r.m, Fresh).val = Len(s)
                        /\ s = <<>> => r.m.lists[Fresh] = EmptyDll
          /\ LET t == to_python_list(S, 1)
                 r == from_python_list(S, t.seq)
             IN /\ t.exc = NoExc
                /\ r.exc = NoExc
                /\ eq(r.m, 1, Fresh).flag = TRUE
                /\ eq(r.m, Fresh, 1).flag = TRUE
                /\ r.m.lists[1] = lists[1]
                /\ to_python_list(r.m, Fresh).seq = t.seq)
    /\ [][(result'.op = "from_python_list" /\ result'.exc = NoExc) =>
            /\ lists'[1].size = Len(ToSeq(1)')
            /\ ToSeq(1)' \in PythonLists(MaxLen)
            /\ \A i \in DOMAIN ToSeq(1)' : ToSeq(1)'[i] # None
       ]_vars

\* from_python_list has just built a list of two different values.
C28_Witness ==
    /\ result.op = "from_python_list"
    /\ result.exc = NoExc
    /\ lists[1].size = 2
    /\ ToSeq(1)[1] # ToSeq(1)[2]

\* ------------------------------------------------------------------------
\* clear
\* ------------------------------------------------------------------------
\* C29: clear never raises; after it head and tail are None, size is 0,
\* to_python_list is [] and no node is left, as after construction; an
\* insert_at_end(v) that follows gives the one-element list [v].
C29_Clear ==
    /\ [](LET r == clear(S, 1)
          IN /\ r.exc = NoExc
             /\ r.m.lists[1] = EmptyDll
             /\ to_python_list(r.m, 1).exc = NoExc
             /\ to_python_list(r.m, 1).seq = <<>>
             /\ Normalize(r.m).heap = <<>>
             /\ \A v \in Values :
                   LET r2 == insert_at_end(r.m, 1, v)
                       node == r2.m.lists[1].head
                   IN /\ r2.exc = NoExc
                      /\ to_python_list(r2.m, 1).seq = <<v>>
                      /\ r2.m.lists[1].size = 1
                      /\ node # None
                      /\ r2.m.lists[1].tail = node
                      /\ r2.m.heap[node] =
                            [info |-> v, next |-> None, prev |-> None]
                      /\ insert_at_end(Normalize(r.m), 1, v).m
                            = insert_at_end(
                                [heap |-> <<>>,
                                 lists |-> [l \in Slots |-> EmptyDll]],
                                1, v).m)
    /\ [][result'.op = "clear" =>
            /\ result'.exc = NoExc
            /\ lists'[1] = EmptyDll
            /\ heap' = <<>>
            /\ ToSeq(1)' = <<>>
       ]_vars

\* clear has just emptied the list.
C29_Witness ==
    /\ result.op = "clear"
    /\ result.exc = NoExc
    /\ lists[1] = EmptyDll
    /\ heap = <<>>

\* ------------------------------------------------------------------------
\* Positional access
\* ------------------------------------------------------------------------
\* C30: for every int position with 0 <= position < size,
\* _get_node_at_position returns, whichever end it walks from, the node
\* reached from head by following next position times, which is a node and
\* not None; for every other int position it raises IndexError.
C30_NodeAt ==
    /\ [](\A position \in IntIndices :
            LET r == get_node_at_position(S, 1, position)
                n == lists[1].size
            IN IF 0 <= position /\ position < n
               THEN /\ r.exc = NoExc
                    /\ r.node # None
                    /\ r.node \in DOMAIN heap
                    /\ r.node = Hops(S, HeadOf(S, 1), TRUE, position)
                    /\ r.node = Forward(1)[position + 1]
                    /\ r.node = Hops(S, TailOf(S, 1), FALSE, n - 1 - position)
               ELSE r.exc = OutOfRange /\ r.node = None)
    /\ [][(result'.op = "__getitem__" /\ result'.exc = NoExc) =>
            \E position \in 0..(lists[1].size - 1) :
                result'.val
                  = InfoOf(S, Hops(S, HeadOf(S, 1), TRUE, position))
       ]_vars

\* __getitem__ has just returned the value of the node one step before the
\* tail of a list of five, found from the tail; its neighbours hold another
\* value.
C30_Witness ==
    /\ result.op = "__getitem__"
    /\ result.exc = NoExc
    /\ lists[1].size = 5
    /\ 3 > lists[1].size \div 2
    /\ get_node_at_position(S, 1, 3).node = Forward(1)[4]
    /\ result.val = InfoOf(S, Forward(1)[4])
    /\ InfoOf(S, Forward(1)[3]) # result.val
    /\ InfoOf(S, Forward(1)[5]) # result.val

\* ------------------------------------------------------------------------
\* Stack and queue calls against the list calls
\* ------------------------------------------------------------------------
\* C31: on a list driven by list, stack and queue calls mixed, in every
\* non-empty state pop leaves the heap and list object delete_at_end leaves
\* and returns what peek returns before it, dequeue leaves what
\* delete_at_beginning leaves and returns what peek_front returns before it;
\* in every state push and enqueue have the outcome of insert_at_end; and
\* the list stays well formed (emptiness, link symmetry, traversals).
C31_FacadesAgree ==
    /\ [](/\ lists[1].size > 0 =>
               /\ pop(S, 1).exc = NoExc
               /\ delete_at_end(S, 1).exc = NoExc
               /\ pop(S, 1).m = delete_at_end(S, 1).m
               /\ peek(S, 1).exc = NoExc
               /\ pop(S, 1).val = peek(S, 1).val
               /\ dequeue(S, 1).exc = NoExc
               /\ delete_at_beginning(S, 1).exc = NoExc
               /\ dequeue(S, 1).m = delete_at_beginning(S, 1).m
               /\ peek_front(S, 1).exc = NoExc
               /\ dequeue(S, 1).val = peek_front(S, 1).val
          /\ \A v \in Payloads :
               /\ push(S, 1, v) = insert_at_end(S, 1, v)
               /\ enqueue(S, 1, v) = insert_at_end(S, 1, v)
          /\ C2_EmptyIff /\ C3_LinkSymmetry /\ C4_Traversal)
    /\ [][/\ (result'.op = "pop" /\ lists[1].size > 0) =>
               /\ S' = Normalize(delete_at_end(S, 1).m)
               /\ result'.val = peek(S, 1).val
          /\ (result'.op = "dequeue" /\ lists[1].size > 0) =>
               /\ S' = Normalize(delete_at_beginning(S, 1).m)
               /\ result'.val = peek_front(S, 1).val
          /\ (result'.op \in {"push", "enqueue"} /\ result'.exc = NoExc) =>
               \E v \in Values : S' = Normalize(insert_at_end(S, 1, v).m)
       ]_vars

\* dequeue has just served a list of four or more whose new front and rear
\* differ from the value served.
C31_Witness ==
    /\ result.op = "dequeue"
    /\ result.exc = NoExc
    /\ lists[1].size >= 3
    /\ result.val # ToSeq(1)[1]
    /\ ToSeq(1)[1] # Last(ToSeq(1))

\* ------------------------------------------------------------------------
\* Termination
\* ------------------------------------------------------------------------
\* The outcomes of every public call on list 1 in the current state, over
\* the arguments of Next.
Outcomes ==
    {get_size(S, 1), is_empty(S, 1), to_python_list(S, 1), clear(S, 1),
     reverse(S, 1), clone(S, 1), remove_duplicates(S, 1),
     delete_at_beginning(S, 1), delete_at_end(S, 1), pop(S, 1), dequeue(S, 1),
     peek(S, 1), peek_front(S, 1), peek_rear(S, 1), eq(S, 1, 1),
     eq(S, 1, NotAList), iterate(S, 1, TRUE), iterate(S, 1, FALSE)}
    \cup {sort(S, 1, rev) : rev \in BOOLEAN}
    \cup UNION {{insert_at_beginning(S, 1, v), insert_at_end(S, 1, v),
                 push(S, 1, v), enqueue(S, 1, v), contains(S, 1, v),
                 contains_in(S, 1, v), delete_value(S, 1, v)} : v \in Payloads}
    \cup UNION {{insert_after_node(S, 1, t, v), insert_before_node(S, 1, t, v)} :
                  t \in Payloads, v \in Payloads}
    \cup UNION {{delete_at_position(S, 1, i), getitem(S, 1, i)} :
                  i \in Indices(MaxLen)}
    \cup {setitem(S, 1, i, v) : i \in Indices(MaxLen), v \in Payloads}
    \cup {from_python_list(S, s) : s \in PythonLists(MaxLen)}

\* C32: in every reachable state the next-chain from head ends in None
\* after size distinct nodes and the prev-chain from tail likewise; each
\* traversal loop (search, to_python_list, reverse, clone, __eq__, forward
\* and backward iteration) ends within size rounds; and every public call
\* returns or raises, for every argument.
C32_Terminates ==
    /\ [](LET n == lists[1].size
              f == Forward(1)
              b == Backward(1)
              head == HeadOf(S, 1)
          IN /\ Len(f) = n /\ Len(b) = n
             /\ Cardinality(Range(f)) = n /\ Cardinality(Range(b)) = n
             /\ f # <<>> => heap[f[n]].next = None
             /\ b # <<>> => heap[b[n]].prev = None
             /\ \A v \in Values : Search(S, head, v, n) # Diverged
             /\ Len(Infos(S, head, n + 1)) <= n
             /\ ~ReverseLoop(S, head, {}).hang
             /\ ReverseLoop(S, head, {}).rounds <= n
             /\ CloneLoop([S EXCEPT !.lists[Fresh] = EmptyDll], head, n).exc
                   = NoExc
             /\ ~EqLoop(S, head, head, n).hang
             /\ \A forward \in BOOLEAN : ~Drain(S, GenNew(1, forward), n).hang
             /\ \A position \in 0..(n - 1) :
                   get_node_at_position(S, 1, position).exc = NoExc
             /\ \A r \in Outcomes : r.exc # Hang)
    /\ [][result'.exc # Hang]_vars

\* __eq__ has just walked a list of three or more to its end.
C32_Witness ==
    /\ result.op = "__eq__"
    /\ result.exc = NoExc
    /\ result.flag = TRUE
    /\ lists[1].size >= 3

\* ------------------------------------------------------------------------
\* Iteration while the list changes
\* ------------------------------------------------------------------------
\* C33: a forward iteration under way, with one call on the list between
\* two of its steps (an insertion, a deletion, __setitem__, reverse, clear,
\* sort or remove_duplicates), ends; yields no node twice; and each node it
\* yields after the call is, when yielded, a node of the list.
C33_IterationSurvivesMutation ==
    iteration.g.forward =>
        /\ Active => ~Drain(S, iteration.g, Fuel(S)).hang
        /\ \A i, j \in DOMAIN iteration.yielded :
              i # j => iteration.yielded[i] # iteration.yielded[j]
        /\ (result.op = "next" /\ result.exc = NoExc /\ iteration.mutated) =>
              iteration.g.current \in Range(Forward(1))

\* ------------------------------------------------------------------------
\* Validation first
\* ------------------------------------------------------------------------
\* C34: __setitem__ with None as value raises InvalidValue for every index,
\* out of range or not an int, and on the empty list; insert_after_node and
\* insert_before_node raise InvalidValue when the target or the new value is
\* None, whether or not the target is in the list and on the empty list; the
\* heap and the list object are left as they were.
C34_ValidationFirst ==
    /\ [](/\ \A index \in Indices(MaxLen + 1) :
               LET r == setitem(S, 1, index, None)
               IN r.exc = InvalidValue /\ r.m = S
          /\ \A t \in Payloads, v \in Payloads :
               (t = None \/ v = None) =>
                  /\ insert_after_node(S, 1, t, v).exc = InvalidValue
                  /\ insert_after_node(S, 1, t, v).m = S
                  /\ insert_before_node(S, 1, t, v).exc = InvalidValue
                  /\ insert_before_node(S, 1, t, v).m = S)
    /\ [][(/\ result'.op \in {"__setitem__", "insert_after_node",
                              "insert_before_node"}
           /\ result'.exc = InvalidValue) =>
              (heap' = heap /\ lists' = lists)
       ]_vars

\* __setitem__ has just refused None on the empty list, where every index
\* is out of range.
C34_Witness ==
    /\ result.op = "__setitem__"
    /\ result.exc = InvalidValue
    /\ lists[1] = EmptyDll
    /\ \A index \in Indices(MaxLen) : getitem(S, 1, index).exc # NoExc

\* ------------------------------------------------------------------------
\* sort and reverse together
\* ------------------------------------------------------------------------
\* C35: on a non-empty list of mutually comparable values, sort() followed
\* by reverse() leaves the value sequence that sort(reverse=True) leaves
\* from the same start, and sort() after sort() leaves the sequence the
\* first sort() left.
C35_SortReverse ==
    /\ []((ToSeq(1) # <<>> /\ MutuallyComparable(ToSeq(1))) =>
            LET ascending == sort(S, 1, FALSE)
                then_reversed == reverse(ascending.m, 1)
                descending == sort(S, 1, TRUE)
                twice == sort(ascending.m, 1, FALSE)
            IN /\ ascending.exc = NoExc /\ then_reversed.exc = NoExc
               /\ descending.exc = NoExc /\ twice.exc = NoExc
               /\ to_python_list(then_reversed.m, 1).seq
                     = to_python_list(descending.m, 1).seq
               /\ to_python_list(twice.m, 1).seq
                     = to_python_list(ascending.m, 1).seq
               /\ Normalize(twice.m) = Normalize(ascending.m))
    /\ [][(ToSeq(1) # <<>> /\ MutuallyComparable(ToSeq(1))
           /\ NonDecreasing(ToSeq(1))) =>
            /\ result'.op = "reverse" =>
                  /\ NonIncreasing(ToSeq(1)')
                  /\ ToSeq(1)' = to_python_list(sort(S, 1, TRUE).m, 1).seq
            /\ (result'.op = "sort" /\ NonDecreasing(ToSeq(1)')) =>
                  ToSeq(1)' = ToSeq(1)
       ]_vars

\* reverse has just turned a list of three or more, in ascending order with
\* two different values, into descending order.
C35_Witness ==
    /\ result.op = "reverse"
    /\ result.exc = NoExc
    /\ lists[1].size >= 3
    /\ MutuallyComparable(ToSeq(1))
    /\ NonIncreasing(ToSeq(1))
    /\ ToSeq(1)[1] > Last(ToSeq(1))

====
